---- MODULE Spec2Model ----
(***************************************************************************)
(* Model of the LinkedIn sourcing pipeline: the scoring engine              *)
(* (agents/scoring.py), the four-stage job pipeline and the batch driver    *)
(* (pipeline.py), and the search helper (agents/search.py).                 *)
(*                                                                          *)
(* Number representation.  Scores are Python floats rounded to 2 decimals;  *)
(* they are modelled as integers counting hundredths (7.0 is 700).  Weights *)
(* are hundredths too (0.30 is 30), so a contribution score * weight counts *)
(* ten-thousandths.  Years of experience count twelfths of a year, so that  *)
(* "6 months" (6 / 12) is exact.  round(x, 2) is round-half-even on the     *)
(* exact value.                                                             *)
(*                                                                          *)
(* Python values are tagged records: PyNone, PyStr(chars), PyList(seq),     *)
(* PyInt(n), PyBool(b).  Text the code inspects (lower, split, strip,       *)
(* substring) is a sequence of one-character strings; a skill, which the    *)
(* code only compares for equality, is a plain string.  A dict is a         *)
(* function whose DOMAIN is the set of keys present.                        *)
(***************************************************************************)
EXTENDS Integers, Sequences, FiniteSets, TLC

----------------------------------------------------------------------------
(* Python values *)

PyNone == [t |-> "none"]
PyStr(s) == [t |-> "str", v |-> s]
PyList(q) == [t |-> "list", v |-> q]
PyInt(n) == [t |-> "int", v |-> n]
PyBool(b) == [t |-> "bool", v |-> b]

EmptyDict == [k \in {} |-> PyNone]

\* dict.get(key, default)
Get(d, k, default) == IF k \in DOMAIN d THEN d[k] ELSE default

\* bool(v): None, "", [], 0 and False are falsy
Truthy(v) ==
  CASE v.t = "none" -> FALSE
    [] v.t = "str" -> Len(v.v) > 0
    [] v.t = "list" -> Len(v.v) > 0
    [] v.t = "int" -> v.v # 0
    [] v.t = "bool" -> v.v

Range(q) == {q[i] : i \in 1..Len(q)}

\* F applied to the value of v, with v evaluated once (a local variable)
Bind(v, F(_)) == CHOOSE y \in {F(x) : x \in {v}} : TRUE

Min(a, b) == IF a <= b THEN a ELSE b
Max(a, b) == IF a >= b THEN a ELSE b

RECURSIVE SumSeq(_)
SumSeq(q) == IF q = <<>> THEN 0 ELSE Head(q) + SumSeq(Tail(q))

\* round(n / d) for d > 0, ties to the even neighbour, as round(x, 2) does
\* on a value that is exactly representable
RoundHalfEven(n, d) ==
  LET q == n \div d
      r == n % d
  IN  IF 2 * r < d THEN q
      ELSE IF 2 * r > d THEN q + 1
      ELSE IF q % 2 = 0 THEN q ELSE q + 1

----------------------------------------------------------------------------
(* str methods on character sequences *)

UpperCase == <<"A","B","C","D","E","F","G","H","I","J","K","L","M",
               "N","O","P","Q","R","S","T","U","V","W","X","Y","Z">>
LowerCase == <<"a","b","c","d","e","f","g","h","i","j","k","l","m",
               "n","o","p","q","r","s","t","u","v","w","x","y","z">>

LowerChar(c) ==
  IF \E i \in 1..Len(UpperCase) : UpperCase[i] = c
  THEN LowerCase[CHOOSE i \in 1..Len(UpperCase) : UpperCase[i] = c]
  ELSE c

\* s.lower()
Lower(s) == [i \in 1..Len(s) |-> LowerChar(s[i])]

IsSpace(c) == c = " "

\* p in s
IsSubstr(p, s) ==
  \E i \in 1..(Len(s) - Len(p) + 1) : SubSeq(s, i, i + Len(p) - 1) = p

\* s.strip()
RECURSIVE LStrip(_)
LStrip(s) == IF s # <<>> /\ IsSpace(Head(s)) THEN LStrip(Tail(s)) ELSE s
RECURSIVE RStrip(_)
RStrip(s) ==
  IF s # <<>> /\ IsSpace(s[Len(s)]) THEN RStrip(SubSeq(s, 1, Len(s) - 1)) ELSE s
Strip(s) == RStrip(LStrip(s))

\* s.split(sep) for a one-character sep: always at least one part
RECURSIVE SplitOn(_, _, _)
SplitOn(s, sep, cur) ==
  IF s = <<>> THEN <<cur>>
  ELSE IF Head(s) = sep THEN <<cur>> \o SplitOn(Tail(s), sep, <<>>)
  ELSE SplitOn(Tail(s), sep, Append(cur, Head(s)))
Split(s, sep) == SplitOn(s, sep, <<>>)

\* s.split(): runs of whitespace separate, empty parts are dropped
Words(s) == SelectSeq(Split(s, " "), LAMBDA w : w # <<>>)

Digits == <<"0","1","2","3","4","5","6","7","8","9">>
IsDigit(c) == \E i \in 1..Len(Digits) : Digits[i] = c
DigitVal(c) == (CHOOSE i \in 1..Len(Digits) : Digits[i] = c) - 1

RECURSIVE NatVal(_, _)
NatVal(s, acc) ==
  IF s = <<>> THEN acc ELSE NatVal(Tail(s), 10 * acc + DigitVal(Head(s)))

\* float(tok) for tokens that are an optionally signed run of digits; any
\* other token of the model's inputs is a word float() rejects (ValueError)
IsIntToken(tok) ==
  LET body == IF tok # <<>> /\ Head(tok) \in {"-", "+"} THEN Tail(tok) ELSE tok
  IN  body # <<>> /\ \A i \in 1..Len(body) : IsDigit(body[i])
IntTokenVal(tok) ==
  IF Head(tok) = "-" THEN 0 - NatVal(Tail(tok), 0)
  ELSE IF Head(tok) = "+" THEN NatVal(Tail(tok), 0)
  ELSE NatVal(tok, 0)

----------------------------------------------------------------------------
(* ScoringAgent: the six criterion evaluators.  Each returns                *)
(* [raised, score]: raised is TRUE when the Python code raises (TypeError   *)
(* or AttributeError on a None it does not expect); score counts hundredths.*)

Returns(score) == [raised |-> FALSE, score |-> score]
Raises == [raised |-> TRUE, score |-> 0]

\* a weight table whose skills weight was raised without lowering another
scoring_weights_skewed ==
  << <<"skills_match", 35>>, <<"experience_relevance", 25>>,
     <<"education", 15>>, <<"company_prestige", 15>>,
     <<"location_fit", 10>>, <<"profile_completeness", 5>> >>

scoring_weights ==
  << <<"skills_match", 30>>, <<"experience_relevance", 25>>,
     <<"education", 15>>, <<"company_prestige", 15>>,
     <<"location_fit", 10>>, <<"profile_completeness", 5>> >>

\* set(a) & set(b) of two skill lists
Common(a, b) == Range(a) \cap Range(b)

\* the evaluator with a bonus of preferred_match * 2.0
_evaluate_skills_match_bonus2(candidate_skills, required_skills, preferred_skills) ==
  IF ~Truthy(required_skills) THEN Returns(500)
  ELSE IF candidate_skills.t # "list" THEN Raises
  ELSE
    LET a == Cardinality(Common(candidate_skills.v, required_skills.v))
        b == Len(required_skills.v)
        hasPref == Truthy(preferred_skills)
        c == IF hasPref
             THEN Cardinality(Common(candidate_skills.v, preferred_skills.v))
             ELSE 0
        d == IF hasPref THEN Len(preferred_skills.v) ELSE 1
        num == 4 * a * d + c * b
        den == b * d
    IN  IF 2 * num >= 10 * den THEN Returns(1000)
        ELSE Returns(RoundHalfEven(200 * num, den))

_evaluate_skills_match(candidate_skills, required_skills, preferred_skills) ==
  IF ~Truthy(required_skills) THEN Returns(500)
  ELSE IF candidate_skills.t # "list" THEN Raises
  ELSE
    LET a == Cardinality(Common(candidate_skills.v, required_skills.v))
        b == Len(required_skills.v)
        hasPref == Truthy(preferred_skills)
        c == IF hasPref
             THEN Cardinality(Common(candidate_skills.v, preferred_skills.v))
             ELSE 0
        d == IF hasPref THEN Len(preferred_skills.v) ELSE 1
        \* required_match * 8.0 + preferred_match * 0.2 = num / den
        num == 40 * a * d + c * b
        den == 5 * b * d
    IN  IF num >= 10 * den THEN Returns(1000)
        ELSE Returns(RoundHalfEven(100 * num, den))

year == <<"y","e","a","r">>
month == <<"m","o","n","t","h">>
DefaultDuration == PyStr(<<"1"," ","y","e","a","r">>)

\* years as twelfths of a year; every exception gives 1.0 (12 twelfths)
_parse_duration(duration) ==
  IF duration.t # "str" THEN 12
  ELSE
    LET low == Lower(duration.v)
        toks == Words(duration.v)
    IN  IF IsSubstr(year, low)
        THEN IF IsIntToken(toks[1]) THEN 12 * IntTokenVal(toks[1]) ELSE 12
        ELSE IF IsSubstr(month, low)
        THEN IF IsIntToken(toks[1]) THEN IntTokenVal(toks[1]) ELSE 12
        ELSE 12

\* [num, den] of |candidate words & job words| / |job words|; both titles
\* are character sequences
_calculate_title_relevance(candidate_title, job_title) ==
  LET candidate_words == Range(Words(Lower(candidate_title)))
      job_words == Range(Words(Lower(job_title)))
  IN  IF job_words = {} THEN [num |-> 0, den |-> 1]
      ELSE [num |-> Cardinality(candidate_words \cap job_words),
            den |-> Cardinality(job_words)]

\* title_relevance >= 0.6
IsRelevant_inclusive(rel) == 5 * rel.num >= 3 * rel.den

\* title_relevance > 0.6
IsRelevant(rel) == 5 * rel.num > 3 * rel.den

\* the loop of _assess_experience_relevance over entries i..Len(exps):
\* [raised, total, relevant], years in twelfths
RECURSIVE ExperienceLoop(_, _, _, _)
ExperienceLoop(exps, i, job_title, acc) ==
  IF i > Len(exps) THEN acc
  ELSE
    LET exp == exps[i]
        years == _parse_duration(Get(exp, "duration", DefaultDuration))
        title == Get(exp, "title", PyStr(<<>>))
    IN  IF title.t # "str" \/ job_title.t # "str"
        THEN [acc EXCEPT !.raised = TRUE]
        ELSE
          LET rel == _calculate_title_relevance(title.v, job_title.v)
          IN  ExperienceLoop(exps, i + 1, job_title,
                [raised |-> FALSE,
                 total |-> acc.total + years,
                 relevant |-> acc.relevant + (IF IsRelevant(rel) THEN years ELSE 0)])

_assess_experience_relevance(candidate_experience, job_title, required_years) ==
  IF ~Truthy(candidate_experience) THEN Returns(100)
  ELSE
    LET sums == ExperienceLoop(candidate_experience.v, 1, job_title,
                               [raised |-> FALSE, total |-> 0, relevant |-> 0])
    IN  IF sums.raised \/ required_years.t # "int" THEN Raises
        ELSE
          LET req == Max(required_years.v, 1)
              \* years_score = min(10.0, (total_years / req) * 8.0) = yn / yd
              capped == 8 * sums.total >= 120 * req
              yn == IF capped THEN 10 ELSE 8 * sums.total
              yd == IF capped THEN 1 ELSE 12 * req
              \* relevance_score = (relevant / max(total_years, 1)) * 2.0
              rn == 2 * sums.relevant
              rd == Max(sums.total, 12)
              num == yn * rd + rn * yd
              den == yd * rd
          IN  IF num >= 10 * den THEN Returns(1000)
              ELSE Returns(RoundHalfEven(100 * num, den))

degree_scores ==
  << <<<<"p","h","d">>, 1000>>,
     <<<<"d","o","c","t","o","r","a","t","e">>, 1000>>,
     <<<<"m","a","s","t","e","r","s">>, 850>>,
     <<<<"m","s">>, 850>>,
     <<<<"m","a">>, 800>>,
     <<<<"b","a","c","h","e","l","o","r","s">>, 700>>,
     <<<<"b","s">>, 700>>,
     <<<<"b","a">>, 650>>,
     <<<<"a","s","s","o","c","i","a","t","e">>, 500>>,
     <<<<"h","i","g","h"," ","s","c","h","o","o","l">>, 300>>
  >>

prestigious_schools ==
  << <<"s","t","a","n","f","o","r","d">>, <<"m","i","t">>,
     <<"h","a","r","v","a","r","d">>, <<"b","e","r","k","e","l","e","y">>,
     <<"c","m","u">>, <<"c","a","l","t","e","c","h">> >>

\* the inner for/break over degree_scores: the score of the first key, in
\* table order, that is a substring of the degree; 0 when none is
DegreeScore(degree) ==
  LET hits == {i \in 1..Len(degree_scores) : IsSubstr(degree_scores[i][1], degree)}
  IN  IF hits = {} THEN 0
      ELSE degree_scores[CHOOSE i \in hits : \A j \in hits : i <= j][2]

\* first loop of _evaluate_education: [raised, highest]
RECURSIVE DegreeLoop(_, _, _)
DegreeLoop(education, i, highest) ==
  IF i > Len(education) THEN [raised |-> FALSE, highest |-> highest]
  ELSE
    LET degree == Get(education[i], "degree", PyStr(<<>>))
    IN  IF degree.t # "str" THEN [raised |-> TRUE, highest |-> highest]
        ELSE DegreeLoop(education, i + 1,
                        Max(highest, DegreeScore(Lower(degree.v))))

IsPrestigiousSchool(school) ==
  \E k \in 1..Len(prestigious_schools) : IsSubstr(prestigious_schools[k], school)

\* second loop: [raised, bonus]; stops at the first prestigious school
RECURSIVE SchoolLoop(_, _)
SchoolLoop(education, i) ==
  IF i > Len(education) THEN [raised |-> FALSE, bonus |-> 0]
  ELSE
    LET school == Get(education[i], "school", PyStr(<<>>))
    IN  IF school.t # "str" THEN [raised |-> TRUE, bonus |-> 0]
        ELSE IF IsPrestigiousSchool(Lower(school.v))
        THEN [raised |-> FALSE, bonus |-> 100]
        ELSE SchoolLoop(education, i + 1)

_evaluate_education(education) ==
  IF ~Truthy(education) THEN Returns(500)
  ELSE
    LET deg == DegreeLoop(education.v, 1, 0)
        sch == SchoolLoop(education.v, 1)
    IN  IF deg.raised \/ sch.raised THEN Raises
        ELSE Returns(Min(1000, deg.highest + sch.bonus))

prestigious_companies ==
  << <<"g","o","o","g","l","e">>, <<"m","i","c","r","o","s","o","f","t">>,
     <<"a","p","p","l","e">>, <<"a","m","a","z","o","n">>, <<"m","e","t","a">>,
     <<"f","a","c","e","b","o","o","k">>, <<"n","e","t","f","l","i","x">>,
     <<"u","b","e","r">>, <<"a","i","r","b","n","b">>, <<"s","t","r","i","p","e">>,
     <<"s","q","u","a","r","e">>, <<"p","a","l","a","n","t","i","r">>,
     <<"s","a","l","e","s","f","o","r","c","e">>, <<"o","r","a","c","l","e">>,
     <<"i","b","m">>, <<"i","n","t","e","l">>, <<"n","v","i","d","i","a">>,
     <<"a","m","d">> >>

startup == <<"s","t","a","r","t","u","p">>
inc == <<"i","n","c">>

\* the score of one employer name (already lower-cased)
CompanyScore(company_name) ==
  IF \E k \in 1..Len(prestigious_companies) :
       IsSubstr(prestigious_companies[k], company_name)
  THEN 900
  ELSE IF IsSubstr(startup, company_name) \/ IsSubstr(inc, company_name)
  THEN 700
  ELSE 600

_assess_company_prestige(companies) ==
  IF ~Truthy(companies) THEN Returns(500)
  ELSE
    LET names == [i \in 1..Len(companies.v) |->
                    Get(companies.v[i], "name", PyStr(<<>>))]
    IN  IF \E i \in 1..Len(names) : names[i].t # "str" THEN Raises
        ELSE
          LET company_scores ==
                [i \in 1..Len(names) |-> CompanyScore(Lower(names[i].v))]
          IN  Returns(RoundHalfEven(SumSeq(company_scores), Len(company_scores)))

\* the evaluator with the remote rule before the state rule
_evaluate_location_fit_remote_first(candidate_location, job_location, remote_allowed) ==
  IF ~Truthy(candidate_location) \/ ~Truthy(job_location) THEN Returns(500)
  ELSE IF Lower(candidate_location.v) = Lower(job_location.v) THEN Returns(1000)
  ELSE
    LET candidate_city == Lower(Split(candidate_location.v, ",")[1])
        job_city == Lower(Split(job_location.v, ",")[1])
        cparts == Split(candidate_location.v, ",")
        jparts == Split(job_location.v, ",")
        candidate_parts == [i \in 1..Len(cparts) |-> Lower(Strip(cparts[i]))]
        job_parts == [i \in 1..Len(jparts) |-> Lower(Strip(jparts[i]))]
    IN  IF candidate_city = job_city THEN Returns(900)
        ELSE IF Truthy(remote_allowed) THEN Returns(600)
        ELSE IF Len(candidate_parts) > 1 /\ Len(job_parts) > 1
                /\ candidate_parts[2] = job_parts[2]
        THEN Returns(700)
        ELSE Returns(300)

_evaluate_location_fit(candidate_location, job_location, remote_allowed) ==
  IF ~Truthy(candidate_location) \/ ~Truthy(job_location) THEN Returns(500)
  ELSE IF Lower(candidate_location.v) = Lower(job_location.v) THEN Returns(1000)
  ELSE
    LET candidate_city == Lower(Split(candidate_location.v, ",")[1])
        job_city == Lower(Split(job_location.v, ",")[1])
        cparts == Split(candidate_location.v, ",")
        jparts == Split(job_location.v, ",")
        candidate_parts == [i \in 1..Len(cparts) |-> Lower(Strip(cparts[i]))]
        job_parts == [i \in 1..Len(jparts) |-> Lower(Strip(jparts[i]))]
    IN  IF candidate_city = job_city THEN Returns(900)
        ELSE IF Len(candidate_parts) > 1 /\ Len(job_parts) > 1
                /\ candidate_parts[2] = job_parts[2]
        THEN Returns(700)
        ELSE IF Truthy(remote_allowed) THEN Returns(600)
        ELSE Returns(300)

required_fields ==
  <<"name", "headline", "location", "experience", "education", "skills", "summary">>
optional_fields ==
  <<"certifications", "volunteer", "publications", "patents", "awards", "languages">>

\* how many of the fields are present and truthy: candidate_data.get(field)
CountTruthy(candidate_data, fields) ==
  Cardinality({i \in 1..Len(fields) : Truthy(Get(candidate_data, fields[i], PyNone))})

_calculate_profile_completeness(candidate_data) ==
  LET r == CountTruthy(candidate_data, required_fields)
      o == CountTruthy(candidate_data, optional_fields)
      nr == Len(required_fields)
      no == Len(optional_fields)
      \* required_complete * 8.0 + optional_bonus * 2.0, optional_bonus = o/no * 0.5
      num == 8 * r * no + o * nr
      den == nr * no
  IN  IF num >= 10 * den THEN Returns(1000)
      ELSE Returns(RoundHalfEven(100 * num, den))

----------------------------------------------------------------------------
(* Aggregation and confidence *)

\* the criteria of scoring_weights that have an entry in scores, in order
Scored(scores) ==
  SelectSeq(scoring_weights, LAMBDA cw : cw[1] \in DOMAIN scores)

\* an aggregator whose running sum misses the last criterion of the table
_calculate_final_score_short(scores) ==
  LET used == Scored(scores)
      contributions == [i \in 1..Len(used) |-> scores[used[i][1]] * used[i][2]]
  IN  [final_score |->
         RoundHalfEven(SumSeq(SubSeq(contributions, 1, Len(used) - 1)), 100),
       breakdown |->
         [c \in {used[i][1] : i \in 1..Len(used)} |->
            LET w == (CHOOSE i \in 1..Len(used) : used[i][1] = c)
            IN  [score |-> scores[c],
                 weight |-> used[w][2],
                 contribution |-> scores[c] * used[w][2]]]]

\* _calculate_final_score: scores maps a criterion to its score (hundredths).
\* final_score is round(sum of score * weight, 2); the breakdown keeps score,
\* weight and contribution (ten-thousandths) per criterion.  The evaluator's
\* free-form "details" are not modelled.
_calculate_final_score(scores) ==
  LET used == Scored(scores)
      contributions == [i \in 1..Len(used) |-> scores[used[i][1]] * used[i][2]]
  IN  [final_score |-> RoundHalfEven(SumSeq(contributions), 100),
       breakdown |->
         [c \in {used[i][1] : i \in 1..Len(used)} |->
            LET w == (CHOOSE i \in 1..Len(used) : used[i][1] = c)
            IN  [score |-> scores[c],
                 weight |-> used[w][2],
                 contribution |-> scores[c] * used[w][2]]]]

confidence_factors ==
  << <<"has_linkedin_url", 20>>, <<"has_experience", 20>>,
     <<"has_education", 15>>, <<"has_skills", 15>>, <<"has_summary", 10>>,
     <<"has_location", 10>>, <<"has_headline", 10>> >>

factor_mapping ==
  [has_linkedin_url |-> "linkedin_url", has_experience |-> "experience",
   has_education |-> "education", has_skills |-> "skills",
   has_summary |-> "summary", has_location |-> "location",
   has_headline |-> "headline"]

\* a check that does not strip strings
_has_data_for_factor_unstripped(candidate_data, factor) ==
  IF factor \notin DOMAIN factor_mapping THEN FALSE
  ELSE
    LET data == Get(candidate_data, factor_mapping[factor], PyNone)
    IN  CASE data.t = "list" -> Len(data.v) > 0
          [] data.t = "str" -> Len(data.v) > 0
          [] OTHER -> Truthy(data)

_has_data_for_factor(candidate_data, factor) ==
  IF factor \notin DOMAIN factor_mapping THEN FALSE
  ELSE
    LET data == Get(candidate_data, factor_mapping[factor], PyNone)
    IN  CASE data.t = "list" -> Len(data.v) > 0
          [] data.t = "str" -> Len(Strip(data.v)) > 0
          [] OTHER -> Truthy(data)

\* a confidence that gives every populated factor the weight 0.2 and is
\* not clamped
_determine_confidence_level_uniform(candidate_data) ==
  LET gained == [i \in 1..Len(confidence_factors) |->
                   IF _has_data_for_factor(candidate_data, confidence_factors[i][1])
                   THEN 20 ELSE 0]
  IN  SumSeq(gained)

_determine_confidence_level(candidate_data) ==
  LET gained == [i \in 1..Len(confidence_factors) |->
                   IF _has_data_for_factor(candidate_data, confidence_factors[i][1])
                   THEN confidence_factors[i][2] ELSE 0]
  IN  Min(100, SumSeq(gained))

\* the dict "scores" of score_profiles: the six evaluators' results.  The
\* experience evaluator is given the candidate's "companies" list.  The
\* skills evaluator is called without preferred_skills (its default None).
CriterionResults(candidate, job) ==
  [skills_match |->
     _evaluate_skills_match(Get(candidate, "skills", PyList(<<>>)),
                            Get(job, "skills", PyList(<<>>)), PyNone),
   experience_relevance |->
     _assess_experience_relevance(Get(candidate, "companies", PyList(<<>>)),
                                  Get(job, "title", PyStr(<<>>)),
                                  Get(job, "required_years", PyInt(0))),
   education |-> _evaluate_education(Get(candidate, "education", PyList(<<>>))),
   company_prestige |->
     _assess_company_prestige(Get(candidate, "companies", PyList(<<>>))),
   location_fit |->
     _evaluate_location_fit(Get(candidate, "location", PyStr(<<>>)),
                            Get(job, "location", PyStr(<<>>)),
                            Get(job, "remote", PyBool(FALSE))),
   profile_completeness |-> _calculate_profile_completeness(candidate)]

\* the rest of score_profiles, given the evaluators' results: it raises when
\* an evaluator raised
Aggregate(results, candidate) ==
  IF \E c \in DOMAIN results : results[c].raised
  THEN [raised |-> TRUE, final_score |-> 0, breakdown |-> EmptyDict,
        confidence |-> 0]
  ELSE
    Bind(_calculate_final_score([c \in DOMAIN results |-> results[c].score]),
         LAMBDA agg :
           [raised |-> FALSE, final_score |-> agg.final_score,
            breakdown |-> agg.breakdown,
            confidence |-> _determine_confidence_level(candidate)])

\* score_profiles(candidate, job): [raised, final_score, breakdown, confidence]
score_profiles(candidate, job) ==
  Bind(CriterionResults(candidate, job),
       LAMBDA results : Aggregate(results, candidate))

----------------------------------------------------------------------------
(* Inputs: candidate and job dicts built from a few options per field *)

\* the longest "companies" list of a candidate
MaxCompanies == 2

AustinTX == <<"A","u","s","t","i","n",","," ","T","X">>
AustinOR == <<"A","u","s","t","i","n",","," ","O","R">>
HoustonTX == <<"H","o","u","s","t","o","n",","," ","T","X">>
BostonMA == <<"B","o","s","t","o","n",","," ","M","A">>
SoftwareEngineer ==
  <<"S","o","f","t","w","a","r","e"," ","E","n","g","i","n","e","e","r">>
SeniorSoftwareEngineer ==
  <<"S","e","n","i","o","r"," ","S","o","f","t","w","a","r","e"," ",
    "E","n","g","i","n","e","e","r">>
SalesManager == <<"S","a","l","e","s"," ","M","a","n","a","g","e","r">>
Blank == <<" "," ">>
SomeText == <<"t","e","x","t">>

\* entries of a candidate's "companies" list
CompanyEntries ==
  { [name |-> PyStr(<<"G","o","o","g","l","e">>),
     title |-> PyStr(SeniorSoftwareEngineer),
     duration |-> PyStr(<<"3"," ","y","e","a","r","s">>)],
    [name |-> PyStr(<<"D","a","t","a","F","l","o","w"," ","I","n","c">>),
     title |-> PyStr(SalesManager),
     duration |-> PyStr(<<"-","5"," ","y","e","a","r","s">>)],
    [name |-> PyStr(<<"C","l","o","u","d","T","e","c","h">>),
     title |-> PyNone,
     duration |-> PyStr(<<"6"," ","m","o","n","t","h","s">>)] }

RECURSIVE SeqsUpTo(_, _)
SeqsUpTo(S, n) ==
  IF n = 0 THEN {<<>>}
  ELSE LET shorter == SeqsUpTo(S, n - 1)
       IN  shorter \cup {Append(q, x) : q \in {r \in shorter : Len(r) = n - 1}, x \in S}

CompaniesOptions ==
  {EmptyDict} \cup {[companies |-> PyList(q)] : q \in SeqsUpTo(CompanyEntries, MaxCompanies)}

EduMIT ==
  [school |-> PyStr(<<"M","I","T">>),
   degree |-> PyStr(<<"B","S"," ","C","o","m","p","u","t","e","r"," ",
                      "S","c","i","e","n","c","e">>)]
EduPhD ==
  [school |-> PyStr(<<"S","t","a","n","f","o","r","d"," ","U","n","i","v","e","r","s","i","t","y">>),
   degree |-> PyStr(<<"P","h","D">>)]
EduNoDegree == [school |-> PyStr(<<"U","T">>)]
EduNoneDegree == [school |-> PyStr(<<"U","T">>), degree |-> PyNone]

EducationOptions ==
  { EmptyDict, [education |-> PyNone], [education |-> PyList(<<>>)],
    [education |-> PyList(<<EduMIT>>)], [education |-> PyList(<<EduPhD>>)],
    [education |-> PyList(<<EduNoDegree, EduMIT>>)],
    [education |-> PyList(<<EduNoneDegree>>)] }

SkillsOptions ==
  { EmptyDict, [skills |-> PyNone], [skills |-> PyList(<<"Python", "Docker">>)],
    [skills |-> PyList(<<"Python", "AWS">>)] }

LocationOptions ==
  { EmptyDict, [location |-> PyStr(AustinTX)], [location |-> PyStr(HoustonTX)] }

\* the fields only profile completeness and confidence read
ProfileOptions ==
  { EmptyDict,
    [name |-> PyStr(SomeText), headline |-> PyStr(Blank), summary |-> PyStr(<<>>),
     linkedin_url |-> PyNone, experience |-> PyList(<<>>)],
    [name |-> PyStr(SomeText), headline |-> PyStr(SomeText),
     summary |-> PyStr(SomeText), linkedin_url |-> PyStr(SomeText),
     experience |-> PyList(<<EmptyDict>>),
     certifications |-> PyList(<<"x">>), volunteer |-> PyStr(SomeText),
     publications |-> PyList(<<"x">>), patents |-> PyList(<<"x">>),
     awards |-> PyList(<<"x">>), languages |-> PyList(<<"x">>)] }

Candidates ==
  { sk @@ co @@ ed @@ lo @@ pr :
      sk \in SkillsOptions, co \in CompaniesOptions, ed \in EducationOptions,
      lo \in LocationOptions, pr \in ProfileOptions }

Jobs ==
  { EmptyDict,
    [job_id |-> PyStr(<<"j","o","b","-","1">>), title |-> PyStr(SoftwareEngineer),
     skills |-> PyList(<<"Python", "AWS">>), location |-> PyStr(AustinTX),
     remote |-> PyBool(FALSE), required_years |-> PyInt(2)],
    [job_id |-> PyStr(<<"j","o","b","-","2">>), title |-> PyStr(SoftwareEngineer),
     skills |-> PyList(<<"Python", "AWS", "Go">>), location |-> PyStr(BostonMA),
     remote |-> PyBool(TRUE)],
    [job_id |-> PyStr(<<"j","o","b","-","3">>), title |-> PyStr(SalesManager),
     skills |-> PyList(<<>>), location |-> PyStr(AustinOR),
     required_years |-> PyInt(5)],
    [job_id |-> PyStr(<<"j","o","b","-","4">>), title |-> PyNone,
     skills |-> PyList(<<"Docker">>), location |-> PyStr(BostonMA),
     required_years |-> PyNone] }

----------------------------------------------------------------------------
(* run_job_pipeline: the state of one run and its four stages.              *)
(*                                                                          *)
(* A run is a record.  objs is the heap of candidate dicts the search       *)
(* returned; candidates, enriched_candidates, scored_candidates and         *)
(* top_candidates are lists of references (indices into objs), because the  *)
(* Python lists share the dict objects that enrichment, scoring and         *)
(* messaging update in place.  calls is the history of collaborator calls:  *)
(* the function, the candidates passed, and the outcome ("found" for a      *)
(* normal return, "raises", or "client_error" for a search whose client     *)
(* failed).                                                                 *)
(* Timestamps and log output are not modelled; an error string is modelled  *)
(* by its fixed prefix.                                                     *)

NoCounts == [k \in {} |-> 0]

NewRun(j) ==
  [job |-> j, objs |-> <<>>, candidates |-> <<>>, enriched_candidates |-> <<>>,
   scored_candidates |-> <<>>, top_candidates |-> <<>>,
   steps_completed |-> <<>>, errors |-> <<>>, candidate_counts |-> NoCounts,
   calls |-> <<>>]

Refs(q) == [i \in 1..Len(q) |-> i]

\* search_candidates(job): outcome says what the Coresignal client does.
\*   "found"        client.search_candidates returns outcome.list
\*   "client_error" the client raises inside the try: logged, [] returned
\*   "raises"       an exception before the try, which leaves the function
\* The "search_metadata" key added to each candidate is not modelled.
search_candidates(j, outcome) ==
  CASE outcome.kind = "found" -> [raised |-> FALSE, value |-> outcome.list]
    [] outcome.kind = "client_error" -> [raised |-> FALSE, value |-> <<>>]
    [] outcome.kind = "raises" -> [raised |-> TRUE, value |-> <<>>]

\* Step 1 (search)
SearchStage(run, outcome) ==
  LET r == search_candidates(run.job, outcome)
      called == [run EXCEPT
                   !.calls = Append(@, [fn |-> "search_candidates", refs |-> <<>>,
                                        outcome |-> outcome.kind])]
  IN  IF ~r.raised
      THEN [called EXCEPT
              !.objs = r.value,
              !.candidates = Refs(r.value),
              !.candidate_counts = [initial_search |-> Len(r.value)] @@ @,
              !.steps_completed = Append(@, "search")]
      ELSE [called EXCEPT
              !.errors = Append(@, "Search error"),
              !.candidates = <<>>]

\* EnrichmentAgent.run: c["github"] = {...} for every candidate, in place
EnrichOne(c) == [github |-> PyBool(TRUE)] @@ c

\* Step 2 without the fallback of line 71: a failed enrichment leaves the
\* later stages nothing to work on
EnrichStage_no_fallback(run, ok) ==
  LET called == [run EXCEPT
                   !.calls = Append(@, [fn |-> "enrich_profiles",
                                        refs |-> run.candidates,
                                        outcome |-> IF ok THEN "found" ELSE "raises"])]
  IN  IF ok
      THEN [called EXCEPT
              !.objs = [i \in 1..Len(run.objs) |->
                          IF i \in Range(run.candidates)
                          THEN EnrichOne(run.objs[i]) ELSE run.objs[i]],
              !.enriched_candidates = run.candidates,
              !.candidate_counts = [after_enrichment |-> Len(run.candidates)] @@ @,
              !.steps_completed = Append(@, "enrichment")]
      ELSE [called EXCEPT
              !.errors = Append(@, "Enrichment error"),
              !.enriched_candidates = <<>>]

\* Step 2 (enrichment): ok is FALSE when enrich_profiles raises, which it
\* does before any candidate is touched
EnrichStage(run, ok) ==
  LET called == [run EXCEPT
                   !.calls = Append(@, [fn |-> "enrich_profiles",
                                        refs |-> run.candidates,
                                        outcome |-> IF ok THEN "found" ELSE "raises"])]
  IN  IF ok
      THEN [called EXCEPT
              !.objs = [i \in 1..Len(run.objs) |->
                          IF i \in Range(run.candidates)
                          THEN EnrichOne(run.objs[i]) ELSE run.objs[i]],
              !.enriched_candidates = run.candidates,
              !.candidate_counts = [after_enrichment |-> Len(run.candidates)] @@ @,
              !.steps_completed = Append(@, "enrichment")]
      ELSE [called EXCEPT
              !.errors = Append(@, "Enrichment error"),
              !.enriched_candidates = run.candidates]

\* the pipeline's scoring of one candidate: the body of the for loop,
\* candidate.update({...}) with the scores or, after an exception, with the
\* defaults.  "scored_at" (a timestamp) is not modelled.
ScoreCandidate(c, j, r) ==
  IF ~r.raised
  THEN [fit_score |-> r.final_score, score_breakdown |-> r.breakdown,
        confidence |-> r.confidence] @@ c
  ELSE [fit_score |-> 500, score_breakdown |-> [error |-> "Scoring failed"],
        confidence |-> 50] @@ c

\* Step 3 with an except branch that skips the candidate instead of giving
\* it the defaults
ScoreStage_dropping(run) ==
  LET todo == run.enriched_candidates
      kept == SelectSeq(todo, LAMBDA ref :
                ~score_profiles(run.objs[ref], run.job).raised)
  IN  [run EXCEPT
         !.objs = [i \in 1..Len(run.objs) |->
                     IF i \in Range(kept)
                     THEN Bind(score_profiles(run.objs[i], run.job),
                               LAMBDA r : ScoreCandidate(run.objs[i], run.job, r))
                     ELSE run.objs[i]],
         !.scored_candidates = kept,
         !.calls = @ \o [i \in 1..Len(todo) |->
                           [fn |-> "score_profiles", refs |-> <<todo[i]>>,
                            outcome |->
                              IF score_profiles(run.objs[todo[i]], run.job).raised
                              THEN "raises" ELSE "found"]],
         !.candidate_counts = [after_scoring |-> Len(kept)] @@ @,
         !.steps_completed = Append(@, "scoring")]

\* Step 3 (scoring): the for loop scores every candidate of
\* enriched_candidates on its own (the inner try lets no exception out), so
\* the loop is written as its effect on each candidate
ScoreStage(run) ==
  LET todo == run.enriched_candidates
  IN  [run EXCEPT
         !.objs = [i \in 1..Len(run.objs) |->
                     IF i \in Range(todo)
                     THEN Bind(score_profiles(run.objs[i], run.job),
                               LAMBDA r : ScoreCandidate(run.objs[i], run.job, r))
                     ELSE run.objs[i]],
         !.scored_candidates = todo,
         !.calls = @ \o [i \in 1..Len(todo) |->
                           [fn |-> "score_profiles", refs |-> <<todo[i]>>,
                            outcome |->
                              IF score_profiles(run.objs[todo[i]], run.job).raised
                              THEN "raises" ELSE "found"]],
         !.candidate_counts = [after_scoring |-> Len(todo)] @@ @,
         !.steps_completed = Append(@, "scoring")]

\* the number of candidates that get an outreach message
TopN == 10

\* c.get("fit_score", 0)
FitScore(c) == IF "fit_score" \in DOMAIN c THEN c.fit_score ELSE 0

\* a descending sort that puts equal scores in reverse input order
SortedByFit_unstable(objs, refs) ==
  LET place(i) ==
        1 + Cardinality({k \in 1..Len(refs) :
                           \/ FitScore(objs[refs[k]]) > FitScore(objs[refs[i]])
                           \/ /\ FitScore(objs[refs[k]]) = FitScore(objs[refs[i]])
                              /\ k > i})
  IN  [n \in 1..Len(refs) |-> refs[CHOOSE i \in 1..Len(refs) : place(i) = n]]

\* sorted(refs, key=fit_score, reverse=True): descending and stable.  The
\* place of refs[i] is one more than the number of elements that come before
\* it: those with a higher score and those with the same score and an
\* earlier position
SortedByFit(objs, refs) ==
  LET place(i) ==
        1 + Cardinality({k \in 1..Len(refs) :
                           \/ FitScore(objs[refs[k]]) > FitScore(objs[refs[i]])
                           \/ /\ FitScore(objs[refs[k]]) = FitScore(objs[refs[i]])
                              /\ k < i})
  IN  [n \in 1..Len(refs) |-> refs[CHOOSE i \in 1..Len(refs) : place(i) = n]]

\* generate_outreach_message(candidate, job), which is MessagingAgent.run:
\* the f-string joins candidate.get("skills", []), which raises on None
generate_outreach_message(c, j) ==
  LET skills == Get(c, "skills", PyList(<<>>))
  IN  IF skills.t # "list" THEN [raised |-> TRUE, message |-> [kind |-> "none"]]
      ELSE [raised |-> FALSE,
            message |-> [kind |-> "personalized", name |-> Get(c, "name", PyNone),
                         skills |-> skills.v, title |-> Get(j, "title", PyNone)]]

\* the generic message of the except branch
FallbackMessage(c, j) ==
  [kind |-> "generic", name |-> Get(c, "name", PyStr(<<"t","h","e","r","e">>)),
   title |-> Get(j, "title", PyStr(<<"o","p","p","o","r","t","u","n","i","t","y">>)),
   company |-> Get(j, "company", PyStr(<<"o","u","r"," ","c","o","m","p","a","n","y">>))]

\* the message of a loop without the except branch's assignment
OutreachMessage_unhandled(c, j) ==
  Bind(generate_outreach_message(c, j), LAMBDA r : r.message)

\* candidate["outreach_message"] of one top candidate: the generated
\* message, or the generic one when the generator raises
OutreachMessage(c, j) ==
  Bind(generate_outreach_message(c, j),
       LAMBDA r : IF r.raised THEN FallbackMessage(c, j) ELSE r.message)

\* Step 4 with the truncation after the loop: every scored candidate gets a
\* message and the first TopN are kept
MessageStage_all(run) ==
  LET ranked == SortedByFit(run.objs, run.scored_candidates)
      top == SubSeq(ranked, 1, Min(TopN, Len(run.scored_candidates)))
  IN  [run EXCEPT
         !.top_candidates = top,
         !.objs = [i \in 1..Len(run.objs) |->
                     IF i \in Range(ranked)
                     THEN [outreach_message |->
                             OutreachMessage(run.objs[i], run.job)] @@ run.objs[i]
                     ELSE run.objs[i]],
         !.calls = @ \o [i \in 1..Len(ranked) |->
                           [fn |-> "generate_outreach_message", refs |-> <<ranked[i]>>,
                            outcome |->
                              IF generate_outreach_message(run.objs[ranked[i]], run.job).raised
                              THEN "raises" ELSE "found"]],
         !.candidate_counts = [final_top_candidates |-> Len(top)] @@ @,
         !.steps_completed = Append(@, "messaging")]

\* Step 4 (messaging): sort, keep the first TopN, and give each of them a
\* message (the inner try lets no exception out)
MessageStage(run) ==
  LET top == SubSeq(SortedByFit(run.objs, run.scored_candidates), 1,
                    Min(TopN, Len(run.scored_candidates)))
  IN  [run EXCEPT
         !.top_candidates = top,
         !.objs = [i \in 1..Len(run.objs) |->
                     IF i \in Range(top)
                     THEN [outreach_message |->
                             OutreachMessage(run.objs[i], run.job)] @@ run.objs[i]
                     ELSE run.objs[i]],
         !.calls = @ \o [i \in 1..Len(top) |->
                           [fn |-> "generate_outreach_message", refs |-> <<top[i]>>,
                            outcome |->
                              IF generate_outreach_message(run.objs[top[i]], run.job).raised
                              THEN "raises" ELSE "found"]],
         !.candidate_counts = [final_top_candidates |-> Len(top)] @@ @,
         !.steps_completed = Append(@, "messaging")]

\* a result whose success forgives one error
PipelineResult_forgiving(run) ==
  LET top == [i \in 1..Len(run.top_candidates) |-> run.objs[run.top_candidates[i]]]
  IN  [job_id |-> Get(run.job, "job_id", PyNone),
       job_title |-> Get(run.job, "title", PyNone),
       company |-> Get(run.job, "company", PyNone),
       top_candidates |-> top,
       pipeline_metadata |->
         [steps_completed |-> run.steps_completed,
          errors |-> run.errors,
          candidate_counts |-> run.candidate_counts,
          success_rate |-> 25 * Len(run.steps_completed),
          avg_fit_score |->
            [sum |-> SumSeq([i \in 1..Len(top) |-> FitScore(top[i])]),
             n |-> Len(top)]],
       total_candidates_processed |-> Len(run.candidates),
       success |-> Len(run.errors) <= 1]

\* the dict run_job_pipeline returns.  success_rate counts percent;
\* avg_fit_score is kept as the sum and the number of top candidates;
\* end_time and execution_time_seconds are not modelled.
PipelineResult(run) ==
  LET top == [i \in 1..Len(run.top_candidates) |-> run.objs[run.top_candidates[i]]]
  IN  [job_id |-> Get(run.job, "job_id", PyNone),
       job_title |-> Get(run.job, "title", PyNone),
       company |-> Get(run.job, "company", PyNone),
       top_candidates |-> top,
       pipeline_metadata |->
         [steps_completed |-> run.steps_completed,
          errors |-> run.errors,
          candidate_counts |-> run.candidate_counts,
          success_rate |-> 25 * Len(run.steps_completed),
          avg_fit_score |->
            [sum |-> SumSeq([i \in 1..Len(top) |-> FitScore(top[i])]),
             n |-> Len(top)]],
       total_candidates_processed |-> Len(run.candidates),
       success |-> Len(run.errors) = 0]

----------------------------------------------------------------------------
(* Inputs of the pipeline: what the search can find, and the jobs *)

\* the longest list a search returns
MaxFound == 2

FullProfile ==
  [headline |-> PyStr(SomeText), summary |-> PyStr(SomeText),
   linkedin_url |-> PyStr(SomeText)]

CandStrong ==
  [name |-> PyStr(<<"S","a","r","a","h">>),
   skills |-> PyList(<<"Python", "AWS">>),
   companies |-> PyList(<<[name |-> PyStr(<<"G","o","o","g","l","e">>),
                           title |-> PyStr(SeniorSoftwareEngineer),
                           duration |-> PyStr(<<"3"," ","y","e","a","r","s">>)]>>),
   education |-> PyList(<<EduMIT>>),
   location |-> PyStr(AustinTX)] @@ FullProfile

CandWeak ==
  [name |-> PyStr(<<"M","i","k","e">>),
   skills |-> PyList(<<"Python", "Docker">>),
   location |-> PyStr(HoustonTX)]

\* same scores as CandWeak, another person
CandWeakTwin ==
  [name |-> PyStr(<<"E","m","i","l","y">>),
   skills |-> PyList(<<"Docker", "Python">>),
   location |-> PyStr(HoustonTX)]

\* a profile whose skills field is None: score_profiles raises when the job
\* requires skills, and the message generator raises on it
CandNoneSkills ==
  [name |-> PyStr(<<"A","l","e","x">>), skills |-> PyNone,
   location |-> PyStr(AustinTX)] @@ FullProfile

FoundCandidates == {CandStrong, CandWeak, CandWeakTwin, CandNoneSkills}

\* a search result longer than the number of candidates that get a message
\* (the length is the API's; the request's limit is the job's "limit")
LongList ==
  <<CandWeak, CandStrong, CandWeakTwin, CandNoneSkills, CandWeak, CandWeakTwin,
    CandStrong, CandWeak, CandWeakTwin, CandWeak, CandWeakTwin, CandStrong>>

SearchOutcomes ==
  {[kind |-> "found", list |-> q] : q \in SeqsUpTo(FoundCandidates, MaxFound)}
    \cup {[kind |-> "found", list |-> LongList]}
    \cup {[kind |-> "client_error", list |-> <<>>], [kind |-> "raises", list |-> <<>>]}

JobEngineer ==
  [job_id |-> PyStr(<<"j","o","b","-","1">>), title |-> PyStr(SoftwareEngineer),
   company |-> PyStr(<<"A","c","m","e">>),
   skills |-> PyList(<<"Python", "AWS">>), location |-> PyStr(AustinTX),
   remote |-> PyBool(FALSE), required_years |-> PyInt(2)]

JobNoSkills ==
  [job_id |-> PyStr(<<"j","o","b","-","2">>), title |-> PyStr(SalesManager),
   skills |-> PyList(<<>>), location |-> PyStr(BostonMA), remote |-> PyBool(TRUE)]

\* the keys of a job that the docstring of run_job_pipeline does not call
\* optional
JobFields == {"job_id", "title", "location", "skills", "remote", "company"}

\* the jobs given to run_job_pipeline; the last one has no field at all
PipelineJobs == {JobEngineer, JobNoSkills, EmptyDict}

\* the jobs of a batch
NumJobs == 6

\* asyncio.Semaphore(5)
MaxConcurrent == 5

\* the jobs of a batch whose collaborators may fail; the others find one
\* candidate and enrich it
FlakyJobs == {2}

BatchJob(i) == [job_id |-> PyInt(i)] @@ JobEngineer

BatchOutcomes(i) ==
  IF i \in FlakyJobs
  THEN {[kind |-> "found", list |-> <<CandStrong, CandNoneSkills>>],
        [kind |-> "client_error", list |-> <<>>], [kind |-> "raises", list |-> <<>>]}
  ELSE {[kind |-> "found", list |-> <<CandWeak>>]}

----------------------------------------------------------------------------
(* State *)

VARIABLES
  kpc,        \* _evaluate_skills_match called directly: "idle", "input", "returned"
  args,       \* _evaluate_skills_match: its three arguments
  skills_ret, \* _evaluate_skills_match: what it returned (or that it raised)
  epc,        \* an evaluator called directly: "idle", "input", "returned"
  efn,        \* the evaluator that is called
  eargs,      \* its arguments
  eret,       \* what it returned (or that it raised)
  spc,        \* scoring run: "idle", "input", "returned" or "attached"
  candidate,  \* scoring run: the candidate dict
  job,        \* scoring run: the job dict
  ret,        \* scoring run: what score_profiles returned (or that it raised)
  pc,         \* run_job_pipeline: the next stage, "idle" or "done"
  run,        \* run_job_pipeline: its locals (see NewRun)
  result,     \* run_job_pipeline: the dict it returned
  config,     \* the global config: config.pipeline, as loaded at import
  bpc,        \* run_batch_pipeline: "idle", "running" or "returned"
  jobs,       \* run_batch_pipeline: the list of jobs
  task,       \* run_batch_pipeline: per job, the position and locals of its task
  sem,        \* run_batch_pipeline: the value of the semaphore
  results,    \* run_batch_pipeline: what gather collected per job
  processed_results,  \* run_batch_pipeline: the list it returns
  req,        \* CoresignalClient._make_request: its position and locals
  wrap        \* a call of a function wrapped by retry_on_failure: the wrapper's
              \* position and locals

scoreVars == <<spc, candidate, job, ret>>
skillsVars == <<kpc, args, skills_ret>>
evalVars == <<epc, efn, eargs, eret>>
jobVars == <<pc, run, result, config>>
batchVars == <<bpc, jobs, task, sem, results, processed_results>>
retryVars == <<req, wrap>>
vars == <<kpc, args, skills_ret, epc, efn, eargs, eret, spc, candidate, job, ret, pc, run, result, config, bpc, jobs, task,
          sem, results, processed_results, req, wrap>>

NoReturn == [raised |-> FALSE, final_score |-> 0, breakdown |-> EmptyDict,
             confidence |-> 0]
NoResult == [returned |-> FALSE]

\* PipelineConfig: min_score_threshold (in hundredths) is 0.7 unless the
\* environment variable MIN_SCORE_THRESHOLD gives another value
DefaultConfig == [min_score_threshold |-> 70]
ConfigOptions == {DefaultConfig, [min_score_threshold |-> 700]}

NoArgs == [candidate_skills |-> PyNone, required_skills |-> PyNone,
           preferred_skills |-> PyNone]

NoRequest ==
  [pc |-> "idle", max_retries |-> 0, attempt |-> 0, requests |-> <<>>,
   slept |-> <<>>, raised |-> "none", message |-> "none"]
NoWrapper ==
  [pc |-> "idle", max_retries |-> 0, delay |-> 0, backoff |-> 0, attempt |-> 0,
   current_delay |-> 0, invocations |-> <<>>, slept |-> <<>>,
   last_exception |-> 0, value |-> 0, raised |-> 0]
RetryIdle == req = NoRequest /\ wrap = NoWrapper

SkillsIdle ==
  /\ kpc = "idle" /\ args = NoArgs /\ skills_ret = Returns(0)
  /\ epc = "idle" /\ efn = "none" /\ eargs = EmptyDict /\ eret = Returns(0)

ScoreIdle ==
  spc = "idle" /\ candidate = EmptyDict /\ job = EmptyDict /\ ret = NoReturn
JobIdle ==
  /\ pc = "idle" /\ run = NewRun(EmptyDict) /\ result = NoResult
  /\ config = DefaultConfig
BatchIdle ==
  /\ bpc = "idle" /\ jobs = <<>> /\ task = <<>> /\ sem = 0
  /\ results = <<>> /\ processed_results = <<>>

----------------------------------------------------------------------------
(* ScoreSpec: score_profiles on one candidate and job, and the pipeline's   *)
(* update of the candidate with what it returned                            *)

ScoreInit ==
  /\ spc = "input"
  /\ candidate \in Candidates
  /\ job \in Jobs
  /\ ret = NoReturn
  /\ SkillsIdle
  /\ JobIdle
  /\ BatchIdle
  /\ RetryIdle

\* score, breakdown, confidence = score_profiles(candidate, job)
CallScoreProfiles ==
  /\ spc = "input"
  /\ ret' = score_profiles(candidate, job)
  /\ spc' = "returned"
  /\ UNCHANGED <<candidate, job, jobVars, skillsVars, evalVars, batchVars, retryVars>>

\* a second call that also updates the candidate with what it returns
CallScoreProfilesAgain_updating ==
  /\ spc = "returned"
  /\ ret' = score_profiles(candidate, job)
  /\ candidate' = ScoreCandidate(candidate, job, ret')
  /\ spc' = "returned_again"
  /\ UNCHANGED <<job, jobVars, skillsVars, evalVars, batchVars, retryVars>>

\* score_profiles(candidate, job) called a second time on the same pair
CallScoreProfilesAgain ==
  /\ spc = "returned"
  /\ ret' = score_profiles(candidate, job)
  /\ spc' = "returned_again"
  /\ UNCHANGED <<candidate, job, jobVars, skillsVars, evalVars, batchVars, retryVars>>

\* candidate.update(...) in the try or in the except branch
AttachScores ==
  /\ spc = "returned"
  /\ candidate' = ScoreCandidate(candidate, job, ret)
  /\ spc' = "attached"
  /\ UNCHANGED <<job, ret, jobVars, skillsVars, evalVars, batchVars, retryVars>>

ScoreNext == CallScoreProfiles \/ CallScoreProfilesAgain \/ AttachScores

ScoreSpec == ScoreInit /\ [][ScoreNext]_vars

----------------------------------------------------------------------------
(* SkillsSpec: ScoringAgent._evaluate_skills_match called on its own, with  *)
(* and without preferred skills                                             *)

CandidateSkillsOptions ==
  { PyList(<<>>), PyList(<<"AWS">>), PyList(<<"Python", "Docker">>),
    PyList(<<"Python", "AWS">>), PyList(<<"Python", "AWS", "Go", "Docker">>) }

RequiredSkillsOptions ==
  { PyNone, PyList(<<>>), PyList(<<"Docker">>), PyList(<<"Python", "AWS">>),
    PyList(<<"Python", "AWS", "Go">>) }

PreferredSkillsOptions ==
  { PyNone, PyList(<<>>), PyList(<<"Docker">>), PyList(<<"Go", "Docker">>),
    PyList(<<"Go", "Docker", "Rust">>) }

SkillsInit ==
  /\ kpc = "input"
  /\ args \in [candidate_skills : CandidateSkillsOptions,
               required_skills : RequiredSkillsOptions,
               preferred_skills : PreferredSkillsOptions]
  /\ skills_ret = Returns(0)
  /\ epc = "idle" /\ efn = "none" /\ eargs = EmptyDict /\ eret = Returns(0)
  /\ ScoreIdle
  /\ JobIdle
  /\ BatchIdle
  /\ RetryIdle

CallSkillsMatch ==
  /\ kpc = "input"
  /\ skills_ret' = _evaluate_skills_match(args.candidate_skills, args.required_skills,
                                          args.preferred_skills)
  /\ kpc' = "returned"
  /\ UNCHANGED <<args, evalVars, scoreVars, jobVars, batchVars, retryVars>>

SkillsNext == CallSkillsMatch

SkillsSpec == SkillsInit /\ [][SkillsNext]_vars

----------------------------------------------------------------------------
(* EvalSpec: the other criterion evaluators of ScoringAgent called on their *)
(* own, one call per behaviour                                              *)

AustinLower == <<"a","u","s","t","i","n",","," ","t","x">>
DallasTX == <<"D","a","l","l","a","s",",","T","X">>
Austin == <<"A","u","s","t","i","n">>
Remote == <<"R","e","m","o","t","e">>

CandidateLocationOptions ==
  { PyNone, PyStr(<<>>), PyStr(AustinTX), PyStr(AustinLower), PyStr(HoustonTX),
    PyStr(Austin), PyStr(Remote) }

JobLocationOptions ==
  { PyNone, PyStr(AustinTX), PyStr(AustinOR), PyStr(BostonMA), PyStr(DallasTX),
    PyStr(Austin) }

RemoteOptions == { PyBool(TRUE), PyBool(FALSE) }

\* a job title of five words, three of them in "Senior Software Engineer"
LeadTitle ==
  <<"S","e","n","i","o","r"," ","S","t","a","f","f"," ","S","o","f","t","w","a","r","e",
    " ","E","n","g","i","n","e","e","r"," ","L","e","a","d">>

ExperienceEntries ==
  { [title |-> PyStr(SeniorSoftwareEngineer),
     duration |-> PyStr(<<"3"," ","y","e","a","r","s">>)],
    [title |-> PyStr(SalesManager),
     duration |-> PyStr(<<"6"," ","m","o","n","t","h","s">>)],
    [title |-> PyStr(SoftwareEngineer),
     duration |-> PyStr(<<"4"," ","m","o","n","t","h","s">>)],
    [duration |-> PyStr(<<"s","e","v","e","r","a","l"," ","y","e","a","r","s">>)],
    [title |-> PyStr(SoftwareEngineer)],
    [title |-> PyStr(SoftwareEngineer),
     duration |-> PyStr(<<"-","1"," ","y","e","a","r","s">>)],
    [title |-> PyStr(SalesManager),
     duration |-> PyStr(<<"2","0"," ","y","e","a","r","s">>)] }

JobTitleOptions ==
  { PyStr(SoftwareEngineer), PyStr(SeniorSoftwareEngineer), PyStr(LeadTitle),
    PyStr(<<>>) }

RequiredYearsOptions == { PyInt(0), PyInt(2), PyInt(3) }

ExperienceArgs ==
  [candidate_experience :
     {PyList(q) : q \in SeqsUpTo(ExperienceEntries, MaxCompanies)},
   job_title : JobTitleOptions,
   required_years : RequiredYearsOptions]

EduHighSchool ==
  [school |-> PyStr(<<"A","u","s","t","i","n"," ","H","i","g","h">>),
   degree |-> PyStr(<<"H","i","g","h"," ","S","c","h","o","o","l"," ",
                      "D","i","p","l","o","m","a">>)]
EduBachelorsMath ==
  [school |-> PyStr(<<"U","T">>),
   degree |-> PyStr(<<"B","a","c","h","e","l","o","r","s"," ","o","f"," ",
                      "M","a","t","h","e","m","a","t","i","c","s">>)]
EduMasters ==
  [school |-> PyStr(<<"H","a","r","v","a","r","d">>),
   degree |-> PyStr(<<"M","a","s","t","e","r","s">>)]

EducationEntries ==
  { EduMIT, EduPhD, EduNoDegree, EduHighSchool, EduBachelorsMath, EduMasters }

EducationArgs ==
  [education : {PyNone} \cup
     {PyList(q) : q \in SeqsUpTo(EducationEntries, MaxCompanies)}]

LocationArgs ==
  [candidate_location : CandidateLocationOptions,
   job_location : JobLocationOptions,
   remote_allowed : RemoteOptions]

EvalInit ==
  /\ epc = "input"
  /\ \/ efn = "_evaluate_location_fit" /\ eargs \in LocationArgs
     \/ efn = "_assess_experience_relevance" /\ eargs \in ExperienceArgs
     \/ efn = "_evaluate_education" /\ eargs \in EducationArgs
  /\ eret = Returns(0)
  /\ kpc = "idle" /\ args = NoArgs /\ skills_ret = Returns(0)
  /\ ScoreIdle
  /\ JobIdle
  /\ BatchIdle
  /\ RetryIdle

CallLocationFit ==
  /\ epc = "input"
  /\ efn = "_evaluate_location_fit"
  /\ eret' = _evaluate_location_fit(eargs.candidate_location, eargs.job_location,
                                    eargs.remote_allowed)
  /\ epc' = "returned"
  /\ UNCHANGED <<efn, eargs, skillsVars, scoreVars, jobVars, batchVars, retryVars>>

CallExperienceRelevance ==
  /\ epc = "input"
  /\ efn = "_assess_experience_relevance"
  /\ eret' = _assess_experience_relevance(eargs.candidate_experience, eargs.job_title,
                                          eargs.required_years)
  /\ epc' = "returned"
  /\ UNCHANGED <<efn, eargs, skillsVars, scoreVars, jobVars, batchVars, retryVars>>

CallEducation ==
  /\ epc = "input"
  /\ efn = "_evaluate_education"
  /\ eret' = _evaluate_education(eargs.education)
  /\ epc' = "returned"
  /\ UNCHANGED <<efn, eargs, skillsVars, scoreVars, jobVars, batchVars, retryVars>>

EvalNext ==
  \/ CallLocationFit
  \/ CallExperienceRelevance
  \/ CallEducation

EvalSpec == EvalInit /\ [][EvalNext]_vars

----------------------------------------------------------------------------
(* JobSpec: one call of run_job_pipeline, stage by stage *)

JobInit ==
  /\ pc = "search"
  /\ run \in {NewRun(j) : j \in PipelineJobs}
  /\ result = NoResult
  /\ config \in ConfigOptions
  /\ SkillsIdle
  /\ ScoreIdle
  /\ BatchIdle
  /\ RetryIdle

Search ==
  /\ pc = "search"
  /\ \E outcome \in SearchOutcomes : run' = SearchStage(run, outcome)
  /\ pc' = "enrich"
  /\ UNCHANGED <<result, config, scoreVars, skillsVars, evalVars, batchVars, retryVars>>

\* an enrichment step after which the stage may run once more
Enrich_again ==
  /\ pc = "enrich"
  /\ \E ok \in BOOLEAN : run' = EnrichStage(run, ok)
  /\ pc' \in {"enrich", "score"}
  /\ UNCHANGED <<result, config, scoreVars, skillsVars, evalVars, batchVars, retryVars>>

Enrich ==
  /\ pc = "enrich"
  /\ \E ok \in BOOLEAN : run' = EnrichStage(run, ok)
  /\ pc' = "score"
  /\ UNCHANGED <<result, config, scoreVars, skillsVars, evalVars, batchVars, retryVars>>

Score ==
  /\ pc = "score"
  /\ run' = ScoreStage(run)
  /\ pc' = "message"
  /\ UNCHANGED <<result, config, scoreVars, skillsVars, evalVars, batchVars, retryVars>>

Message ==
  /\ pc = "message"
  /\ run' = MessageStage(run)
  /\ pc' = "return"
  /\ UNCHANGED <<result, config, scoreVars, skillsVars, evalVars, batchVars, retryVars>>

Return ==
  /\ pc = "return"
  /\ result' = [returned |-> TRUE, value |-> PipelineResult(run)]
  /\ pc' = "done"
  /\ UNCHANGED <<run, config, scoreVars, skillsVars, evalVars, batchVars, retryVars>>

JobNext == Search \/ Enrich \/ Score \/ Message \/ Return

JobSpec == JobInit /\ [][JobNext]_vars

----------------------------------------------------------------------------
(* BatchSpec: one call of run_batch_pipeline.  A task runs between two      *)
(* awaits without interleaving, so a task has three steps: it takes the     *)
(* semaphore and calls the search; the search returns and it calls the      *)
(* enrichment; the enrichment returns and it runs the rest of the pipeline, *)
(* returns and gives the semaphore back.                                    *)

Pending == [pc |-> "pending", run |-> NewRun(EmptyDict)]

BatchInit ==
  /\ bpc = "running"
  /\ jobs = [i \in 1..NumJobs |-> BatchJob(i)]
  /\ task = [i \in 1..NumJobs |-> Pending]
  /\ sem = MaxConcurrent
  /\ results = [i \in 1..NumJobs |-> [done |-> FALSE]]
  /\ processed_results = <<>>
  /\ SkillsIdle
  /\ ScoreIdle
  /\ JobIdle
  /\ RetryIdle

\* a task that starts without waiting for the semaphore
Acquire_unguarded(i) ==
  /\ bpc = "running"
  /\ task[i].pc = "pending"
  /\ \A k \in 1..(i - 1) : task[k].pc # "pending"
  /\ sem' = sem - 1
  /\ task' = [task EXCEPT ![i] = [pc |-> "search", run |-> NewRun(jobs[i])]]
  /\ UNCHANGED <<bpc, jobs, results, processed_results, scoreVars, skillsVars, evalVars, jobVars, retryVars>>

\* async with semaphore: the tasks were created in list order and the
\* semaphore wakes its waiters in that order
Acquire(i) ==
  /\ bpc = "running"
  /\ task[i].pc = "pending"
  /\ \A k \in 1..(i - 1) : task[k].pc # "pending"
  /\ sem > 0
  /\ sem' = sem - 1
  /\ task' = [task EXCEPT ![i] = [pc |-> "search", run |-> NewRun(jobs[i])]]
  /\ UNCHANGED <<bpc, jobs, results, processed_results, scoreVars, skillsVars, evalVars, jobVars, retryVars>>

\* await search_candidates(job) ends; enrich_profiles is called
SearchDone(i) ==
  /\ task[i].pc = "search"
  /\ \E outcome \in BatchOutcomes(i) :
       task' = [task EXCEPT ![i] = [pc |-> "enrich",
                                    run |-> SearchStage(task[i].run, outcome)]]
  /\ UNCHANGED <<bpc, jobs, sem, results, processed_results, scoreVars, skillsVars, evalVars, jobVars, retryVars>>

\* the run after steps 2, 3 and 4
AfterEnrich(r, ok) ==
  Bind(EnrichStage(r, ok),
       LAMBDA enriched :
         Bind(ScoreStage(enriched), LAMBDA scored : MessageStage(scored)))

\* await enrich_profiles(candidates) ends; the pipeline runs to its return
\* and the semaphore is released
EnrichDone(i) ==
  /\ task[i].pc = "enrich"
  /\ \E ok \in (IF i \in FlakyJobs THEN BOOLEAN ELSE {TRUE}) :
       \E final \in {AfterEnrich(task[i].run, ok)} :
         /\ task' = [task EXCEPT ![i] = [pc |-> "done", run |-> final]]
         /\ results' = [results EXCEPT ![i] =
                          [done |-> TRUE, is_exception |-> FALSE,
                           value |-> PipelineResult(final)]]
  /\ sem' = sem + 1
  /\ UNCHANGED <<bpc, jobs, processed_results, scoreVars, skillsVars, evalVars, jobVars, retryVars>>

\* an exception that ends the task without giving the semaphore back
TaskRaises_leaking(i) ==
  /\ i \in FlakyJobs
  /\ task[i].pc \in {"search", "enrich"}
  /\ task' = [task EXCEPT ![i].pc = "done"]
  /\ results' = [results EXCEPT ![i] =
                   [done |-> TRUE, is_exception |-> TRUE,
                    value |-> [exception |-> "exception"]]]
  /\ UNCHANGED <<sem, bpc, jobs, processed_results, scoreVars, skillsVars, evalVars, jobVars, retryVars>>

\* an exception leaves run_job_pipeline (it is raised while the task is
\* resumed and not handled there): async with releases the semaphore and
\* gather(return_exceptions=True) keeps the exception as the task's result
TaskRaises(i) ==
  /\ i \in FlakyJobs
  /\ task[i].pc \in {"search", "enrich"}
  /\ task' = [task EXCEPT ![i].pc = "done"]
  /\ results' = [results EXCEPT ![i] =
                   [done |-> TRUE, is_exception |-> TRUE,
                    value |-> [exception |-> "exception"]]]
  /\ sem' = sem + 1
  /\ UNCHANGED <<bpc, jobs, processed_results, scoreVars, skillsVars, evalVars, jobVars, retryVars>>

\* the dict that stands for a job whose task ended with an exception
ErrorResult(j, text) ==
  [job_id |-> Get(j, "job_id", PyNone),
   top_candidates |-> <<>>,
   pipeline_metadata |-> [errors |-> <<text>>],
   total_candidates_processed |-> 0,
   success |-> FALSE,
   error |-> text]

\* a loop that keeps only the results that are not exceptions
ProcessResults_dropping(js, rs) ==
  LET kept == SelectSeq(rs, LAMBDA r : ~r.is_exception)
  IN  [i \in 1..Len(kept) |-> kept[i].value]

\* gather returns when every task is done; the loop over its results
ProcessResults(js, rs) ==
  [i \in 1..Len(rs) |->
     IF rs[i].is_exception THEN ErrorResult(js[i], rs[i].value.exception)
     ELSE rs[i].value]

Gather ==
  /\ bpc = "running"
  /\ \A i \in 1..NumJobs : results[i].done
  /\ processed_results' = ProcessResults(jobs, results)
  /\ bpc' = "returned"
  /\ UNCHANGED <<jobs, task, sem, results, scoreVars, skillsVars, evalVars, jobVars, retryVars>>

BatchNext ==
  \/ \E i \in 1..NumJobs : Acquire(i)
  \/ \E i \in 1..NumJobs : SearchDone(i)
  \/ \E i \in 1..NumJobs : EnrichDone(i)
  \/ \E i \in 1..NumJobs : TaskRaises(i)
  \/ Gather

BatchSpec == BatchInit /\ [][BatchNext]_vars

\* the scheduling of a batch: a task whose turn at the semaphore has come
\* takes it, and gather returns once all tasks are done; every single pipeline
\* terminates, that is, no task stays between taking the semaphore and its end
\* (by returning or by raising) for ever
BatchFairSpec ==
  /\ BatchSpec
  /\ \A i \in 1..NumJobs : WF_vars(Acquire(i))
  /\ WF_vars(Gather)
  /\ \A i \in 1..NumJobs : []<>(task[i].pc \notin {"search", "enrich"})

----------------------------------------------------------------------------
(* RequestSpec: one call of CoresignalClient._make_request.  Each step is   *)
(* one pass of the for loop: one HTTP request and what the loop does with   *)
(* its response.  _ensure_session and _rate_limit_delay are not modelled.   *)

\* the largest config.max_retries
MaxRetries == 3

\* what one self._session.request(...) can bring:
\*   "ok"           a 2xx response with a JSON body
\*   "bad_json"     a 2xx response whose body is not JSON: response.json() raises
\*   "rate_limited" a 429 response; retry_after is the Retry-After header
\*                  ("absent", a number of seconds, or "date" for an HTTP date)
\*   "timeout"      httpx.TimeoutException
\*   "unexpected"   any other exception of the request
\*   "status_error" a 4xx/5xx response other than 429: raise_for_status()
\*                  raises HTTPStatusError; body is "empty", "json" or "text"
Responses ==
  { [kind |-> "ok"], [kind |-> "bad_json"], [kind |-> "timeout"],
    [kind |-> "unexpected"],
    [kind |-> "rate_limited", retry_after |-> "absent"],
    [kind |-> "rate_limited", retry_after |-> "date"],
    [kind |-> "status_error", status |-> 404, body |-> "json"],
    [kind |-> "status_error", status |-> 500, body |-> "empty"],
    [kind |-> "status_error", status |-> 502, body |-> "text"] }

Raise(r, class, message) ==
  [r EXCEPT !.pc = "raised", !.raised = class, !.message = message]

\* the except branches for TimeoutException and for Exception
RetryOrRaise(r, message) ==
  IF r.attempt = r.max_retries - 1
  THEN Raise(r, "CoresignalAPIError", message)
  ELSE [r EXCEPT !.slept = Append(@, 2 ^ r.attempt), !.attempt = @ + 1]

\* one pass of the loop body with the response resp
LoopBody(r, resp) ==
  LET sent == [r EXCEPT !.requests = Append(@, resp.kind)]
  IN  CASE resp.kind = "ok" -> [sent EXCEPT !.pc = "returned"]
        [] resp.kind = "rate_limited" ->
             IF resp.retry_after = "date"
             THEN \* int(...) raises ValueError inside the try
                  RetryOrRaise(sent, "Request failed")
             ELSE [sent EXCEPT !.slept = Append(@, 60), !.attempt = @ + 1]
        [] resp.kind = "timeout" -> RetryOrRaise(sent, "Request timeout")
        [] resp.kind = "status_error" ->
             IF resp.body = "text"
             THEN \* e.response.json() raises inside the except branch
                  Raise(sent, "JSONDecodeError", "none")
             ELSE Raise(sent, "CoresignalAPIError", "API error")
        [] OTHER -> RetryOrRaise(sent, "Request failed")

RequestInit ==
  /\ \E n \in 0..MaxRetries :
       req = [NoRequest EXCEPT !.pc = "loop", !.max_retries = n]
  /\ wrap = NoWrapper
  /\ SkillsIdle
  /\ ScoreIdle
  /\ JobIdle
  /\ BatchIdle

\* for attempt in range(self.config.max_retries): one request
Request ==
  /\ req.pc = "loop"
  /\ req.attempt < req.max_retries
  /\ \E resp \in Responses : req' = LoopBody(req, resp)
  /\ UNCHANGED <<wrap, skillsVars, evalVars, scoreVars, jobVars, batchVars>>

\* the loop ends: raise CoresignalAPIError("Max retries exceeded", 500, {})
Exhausted ==
  /\ req.pc = "loop"
  /\ req.attempt >= req.max_retries
  /\ req' = Raise(req, "CoresignalAPIError", "Max retries exceeded")
  /\ UNCHANGED <<wrap, skillsVars, evalVars, scoreVars, jobVars, batchVars>>

RequestNext == Request \/ Exhausted

RequestSpec == RequestInit /\ [][RequestNext]_vars

----------------------------------------------------------------------------
(* RetrySpec: one call of a function wrapped by retry_on_failure.  Each     *)
(* step is one pass of the wrapper's for loop: one invocation of the        *)
(* function, which returns or raises.  Invocations are numbered; value and  *)
(* last_exception hold the number of the invocation they came from (0 for   *)
(* None).  BaseAgent._make_api_request is wrapped with max_retries = 3,     *)
(* delay = 1.0 and the default backoff = 2.0, and always raises.            *)

Delays == {1, 3}
Backoffs == {1, 2, 3}

\* a pass of the loop that sleeps the same delay before every retry
Invocation_constant_delay(w, returns) ==
  LET k == Len(w.invocations) + 1
  IN  IF returns
      THEN [w EXCEPT !.invocations = Append(@, "returns"), !.pc = "returned",
                     !.value = k]
      ELSE LET failed == [w EXCEPT !.invocations = Append(@, "raises"),
                                   !.last_exception = k, !.attempt = @ + 1]
           IN  IF w.attempt < w.max_retries
               THEN [failed EXCEPT !.slept = Append(@, w.current_delay)]
               ELSE failed

\* one pass of the loop: return func(*args, **kwargs), or the except branch
Invocation(w, returns) ==
  LET k == Len(w.invocations) + 1
  IN  IF returns
      THEN [w EXCEPT !.invocations = Append(@, "returns"), !.pc = "returned",
                     !.value = k]
      ELSE LET failed == [w EXCEPT !.invocations = Append(@, "raises"),
                                   !.last_exception = k, !.attempt = @ + 1]
           IN  IF w.attempt < w.max_retries
               THEN [failed EXCEPT !.slept = Append(@, w.current_delay),
                                   !.current_delay = @ * w.backoff]
               ELSE failed

RetryInit ==
  /\ \E n \in 0..MaxRetries, d \in Delays, b \in Backoffs :
       wrap = [NoWrapper EXCEPT !.pc = "loop", !.max_retries = n, !.delay = d,
                                !.backoff = b, !.current_delay = d]
  /\ req = NoRequest
  /\ SkillsIdle
  /\ ScoreIdle
  /\ JobIdle
  /\ BatchIdle

\* for attempt in range(max_retries + 1): one invocation
Invoke ==
  /\ wrap.pc = "loop"
  /\ wrap.attempt <= wrap.max_retries
  /\ \E returns \in BOOLEAN : wrap' = Invocation(wrap, returns)
  /\ UNCHANGED <<req, skillsVars, evalVars, scoreVars, jobVars, batchVars>>

\* raise last_exception
RaiseLast ==
  /\ wrap.pc = "loop"
  /\ wrap.attempt > wrap.max_retries
  /\ wrap' = [wrap EXCEPT !.pc = "raised", !.raised = wrap.last_exception]
  /\ UNCHANGED <<req, skillsVars, evalVars, scoreVars, jobVars, batchVars>>

RetryNext == Invoke \/ RaiseLast

RetrySpec == RetryInit /\ [][RetryNext]_vars

----------------------------------------------------------------------------
(* Claims about scoring, checked under ScoreSpec *)

Criteria == {scoring_weights[i][1] : i \in 1..Len(scoring_weights)}

SumWeights(table) == SumSeq([i \in 1..Len(table) |-> table[i][2]])

\* C1: for every candidate and job, the final_score score_profiles returns
\* and the fit_score the pipeline attaches lie in [0, 10].
C1_ScoreInRange ==
  /\ (spc # "input" /\ ~ret.raised) => ret.final_score \in 0..1000
  /\ spc = "attached" => candidate.fit_score \in 0..1000

\* C2: the confidence attached to a candidate, computed by
\* _determine_confidence_level or the 0.5 default after a scoring failure,
\* lies in [0, 1].
C2_ConfidenceInRange ==
  /\ (spc # "input" /\ ~ret.raised) => ret.confidence \in 0..100
  /\ spc = "attached" => candidate.confidence \in 0..100

C2_Witness ==
  /\ spc = "attached"
  /\ ~ret.raised
  /\ candidate.confidence = 100
  /\ _has_data_for_factor(candidate, "has_linkedin_url")

\* C3: the six scoring weights and the seven confidence-factor weights each
\* sum to exactly 1.0, and so do the weights of every breakdown returned.
C3_WeightsSumToOne ==
  /\ Len(scoring_weights) = 6
  /\ Len(confidence_factors) = 7
  /\ SumWeights(scoring_weights) = 100
  /\ SumWeights(confidence_factors) = 100
  /\ (spc # "input" /\ ~ret.raised) =>
       SumSeq([i \in 1..Len(scoring_weights) |->
                 ret.breakdown[scoring_weights[i][1]].weight]) = 100

C3_Witness ==
  /\ spc = "returned"
  /\ ~ret.raised
  /\ DOMAIN ret.breakdown = Criteria
  /\ ret.breakdown["skills_match"].weight = 30

\* C4: final_score is the sum over all six criteria of score * weight,
\* rounded to 2 decimals; the breakdown has exactly one entry per criterion
\* with its score, its weight and contribution = score * weight, so
\* final_score is the rounded sum of the contributions.
C4_FinalScoreIsWeightedSum ==
  (spc # "input" /\ ~ret.raised) =>
    /\ DOMAIN ret.breakdown = Criteria
    /\ \A i \in 1..Len(scoring_weights) :
         LET e == ret.breakdown[scoring_weights[i][1]]
         IN  /\ e.weight = scoring_weights[i][2]
             /\ e.contribution = e.score * e.weight
    /\ ret.breakdown["skills_match"].score =
         _evaluate_skills_match(Get(candidate, "skills", PyList(<<>>)),
                                Get(job, "skills", PyList(<<>>)), PyNone).score
    /\ ret.breakdown["profile_completeness"].score =
         _calculate_profile_completeness(candidate).score
    /\ ret.final_score =
         RoundHalfEven(
           SumSeq([i \in 1..Len(scoring_weights) |->
                     ret.breakdown[scoring_weights[i][1]].contribution]), 100)

C4_Witness ==
  /\ spc = "returned"
  /\ ~ret.raised
  /\ ret.breakdown["skills_match"].score = 400
  /\ ret.breakdown["location_fit"].score = 1000
  /\ ret.final_score > 500

----------------------------------------------------------------------------
(* Claims about run_job_pipeline, checked under JobSpec *)

Stages == {"search", "enrich", "score", "message", "return", "done"}

After(stage) ==
  CASE stage = "search" -> {"enrich", "score", "message", "return", "done"}
    [] stage = "enrich" -> {"score", "message", "return", "done"}
    [] stage = "score" -> {"message", "return", "done"}
    [] stage = "message" -> {"return", "done"}

CallsOf(r, fn) == SelectSeq(r.calls, LAMBDA c : c.fn = fn)

SearchFailed(r) ==
  \E k \in 1..Len(r.calls) :
    r.calls[k].fn = "search_candidates" /\ r.calls[k].outcome # "found"

EnrichFailed(r) ==
  \E k \in 1..Len(r.calls) :
    r.calls[k].fn = "enrich_profiles" /\ r.calls[k].outcome = "raises"

\* the keys the pipeline's stages add to a candidate
ScoreKeys == {"fit_score", "score_breakdown", "confidence"}

Without(c, keys) == [k \in DOMAIN c \ keys |-> c[k]]

\* C5: after a failure of the search stage no later stage runs, and the
\* result has an empty candidate list, success = false and the error
\* recorded on it.
C5_SearchFailureIsFatal ==
  SearchFailed(run) =>
    /\ \A k \in 1..Len(run.calls) : run.calls[k].fn = "search_candidates"
    /\ Range(run.steps_completed) \cap {"enrichment", "scoring", "messaging"} = {}
    /\ pc = "done" =>
         /\ result.value.top_candidates = <<>>
         /\ result.value.success = FALSE
         /\ \/ "error" \in DOMAIN result.value
            \/ result.value.pipeline_metadata.errors # <<>>

\* C9: after a failure of the enrichment stage the pipeline goes on with the
\* list the search returned, unenriched, and scoring and messaging run on
\* exactly those candidates.
C9_EnrichFailureFallsBack ==
  (pc \in After("enrich") /\ EnrichFailed(run)) =>
    /\ run.enriched_candidates = run.candidates
    /\ run.candidates = Refs(run.objs)
    /\ "Enrichment error" \in Range(run.errors)
    /\ \A i \in Range(run.candidates) :
         Without(run.objs[i], ScoreKeys \cup {"outreach_message"}) \in FoundCandidates
    /\ pc \in After("score") =>
         /\ run.scored_candidates = run.candidates
         /\ "scoring" \in Range(run.steps_completed)
         /\ CallsOf(run, "score_profiles") =
              [i \in 1..Len(run.candidates) |->
                 [fn |-> "score_profiles", refs |-> <<run.candidates[i]>>,
                  outcome |-> CallsOf(run, "score_profiles")[i].outcome]]
         /\ \A i \in Range(run.candidates) : ScoreKeys \subseteq DOMAIN run.objs[i]
    /\ pc \in After("message") =>
         /\ "messaging" \in Range(run.steps_completed)
         /\ Len(run.top_candidates) = Min(TopN, Len(run.candidates))
         /\ Range(run.top_candidates) \subseteq Range(run.candidates)
         /\ Len(CallsOf(run, "generate_outreach_message")) = Len(run.top_candidates)
         /\ \A i \in Range(run.top_candidates) :
              "outreach_message" \in DOMAIN run.objs[i]
    /\ pc = "done" =>
         Len(result.value.top_candidates) = Min(TopN, Len(run.candidates))

C9_Witness ==
  /\ pc = "done"
  /\ EnrichFailed(run)
  /\ Len(run.candidates) = 2
  /\ Len(result.value.top_candidates) = 2
  /\ result.value.pipeline_metadata.steps_completed = <<"search", "scoring", "messaging">>

\* C10: every candidate that enters the scoring stage is in the scored list
\* after it: one for which score_profiles raises with fit_score 5.0 and
\* confidence 0.5, every other one with the values score_profiles returns.
C10_ScoringFailureKeepsCandidate ==
  pc \in After("score") =>
    /\ Len(run.scored_candidates) = Len(run.enriched_candidates)
    /\ run.scored_candidates = run.enriched_candidates
    /\ run.candidate_counts["after_scoring"] = Len(run.enriched_candidates)
    /\ \A i \in Range(run.enriched_candidates) :
         LET c == run.objs[i]
             r == score_profiles(Without(c, ScoreKeys \cup {"outreach_message"}),
                                 run.job)
         IN  /\ ScoreKeys \subseteq DOMAIN c
             /\ IF r.raised
                THEN /\ c.fit_score = 500
                     /\ c.confidence = 50
                ELSE /\ c.fit_score = r.final_score
                     /\ c.confidence = r.confidence
                     /\ c.score_breakdown = r.breakdown

C10_Witness ==
  /\ pc = "message"
  /\ Len(run.scored_candidates) = 2
  /\ CallsOf(run, "score_profiles")[1].outcome = "raises"
  /\ CallsOf(run, "score_profiles")[2].outcome = "found"
  /\ run.objs[1].fit_score = 500
  /\ run.objs[1].confidence = 50
  /\ run.objs[2].fit_score > 500

----------------------------------------------------------------------------
(* Claims about run_batch_pipeline, checked under BatchSpec *)

\* a result that carries an error string: the "error" key, or an entry of
\* the error list of its metadata
HasErrorString(r) ==
  "error" \in DOMAIN r \/ r.pipeline_metadata.errors # <<>>

\* no collaborator of the run failed
NoFailure(r) ==
  /\ r.calls # <<>>
  /\ \A k \in 1..Len(r.calls) : r.calls[k].outcome = "found"

\* the tasks that hold the semaphore
InFlight == {i \in 1..Len(task) : task[i].pc \in {"search", "enrich"}}

\* C6: in the list a batch returns, a job whose search failed has
\* success = false and an error string, and a job none of whose collaborators
\* failed has success = true and a non-empty candidate list.
C6_FailedSearchJobReportsFailure ==
  bpc = "returned" =>
    \A i \in 1..NumJobs :
      ~results[i].is_exception =>
        /\ SearchFailed(task[i].run) =>
             /\ processed_results[i].success = FALSE
             /\ HasErrorString(processed_results[i])
        /\ NoFailure(task[i].run) =>
             /\ processed_results[i].success = TRUE
             /\ processed_results[i].top_candidates # <<>>

C8_AtMostFiveInFlight ==
  bpc # "idle" =>
    /\ Cardinality(InFlight) <= 5
    /\ sem = MaxConcurrent - Cardinality(InFlight)

C8_Witness ==
  /\ Cardinality(InFlight) = 5
  /\ sem = 0
  /\ \E i \in 1..NumJobs : task[i].pc = "pending"
  /\ \E i \in 1..NumJobs : task[i].pc = "enrich"

----------------------------------------------------------------------------
(* Claims about ranking, messages and the result, checked under JobSpec *)

\* a message with text: the generated one or the generic one
NonEmptyMessage(msg) == msg.kind \in {"personalized", "generic"}

MessageRaised(r, ref) ==
  \E k \in 1..Len(r.calls) :
    /\ r.calls[k].fn = "generate_outreach_message"
    /\ r.calls[k].refs = <<ref>>
    /\ r.calls[k].outcome = "raises"

\* C11: after the messaging stage every top candidate carries a non-empty
\* outreach_message: the generic one when generate_outreach_message raised
\* for it, the generated one otherwise; the generator is called for every top
\* candidate, also after an earlier one failed.
C11_MessageFailureGetsGeneric ==
  pc \in After("message") =>
    /\ [k \in 1..Len(CallsOf(run, "generate_outreach_message")) |->
          CallsOf(run, "generate_outreach_message")[k].refs] =
       [k \in 1..Len(run.top_candidates) |-> <<run.top_candidates[k]>>]
    /\ \A i \in Range(run.top_candidates) :
         /\ "outreach_message" \in DOMAIN run.objs[i]
         /\ NonEmptyMessage(run.objs[i].outreach_message)
         /\ run.objs[i].outreach_message.kind =
              IF MessageRaised(run, i) THEN "generic" ELSE "personalized"
    /\ pc = "done" =>
         \A k \in 1..Len(result.value.top_candidates) :
           /\ "outreach_message" \in DOMAIN result.value.top_candidates[k]
           /\ NonEmptyMessage(result.value.top_candidates[k].outreach_message)

C11_Witness ==
  /\ pc = "done"
  /\ Len(result.value.top_candidates) = 2
  /\ MessageRaised(run, run.top_candidates[1])
  /\ result.value.top_candidates[1].outreach_message.kind = "generic"
  /\ result.value.top_candidates[2].outreach_message.kind = "personalized"

\* the position of a reference in a list of distinct references
Pos(q, x) == CHOOSE k \in 1..Len(q) : q[k] = x

\* C12: the candidates of top_candidates, and of the returned list, are in
\* non-increasing order of fit_score, and two of them with equal fit_score
\* are in the order in which they entered the scoring stage.
C12_RankedDescendingStable ==
  /\ pc \in After("message") =>
       \A a, b \in 1..Len(run.top_candidates) :
         a < b =>
           LET x == run.top_candidates[a]
               y == run.top_candidates[b]
           IN  /\ run.objs[x].fit_score >= run.objs[y].fit_score
               /\ run.objs[x].fit_score = run.objs[y].fit_score =>
                    Pos(run.enriched_candidates, x) < Pos(run.enriched_candidates, y)
  /\ pc = "done" =>
       /\ result.value.top_candidates =
            [k \in 1..Len(run.top_candidates) |-> run.objs[run.top_candidates[k]]]
       /\ \A k \in 1..(Len(result.value.top_candidates) - 1) :
            result.value.top_candidates[k].fit_score >=
              result.value.top_candidates[k + 1].fit_score

C12_Witness ==
  /\ pc = "done"
  /\ Len(result.value.top_candidates) >= 2
  /\ result.value.top_candidates[1].fit_score = result.value.top_candidates[2].fit_score
  /\ result.value.top_candidates[1].name # result.value.top_candidates[2].name
  /\ run.top_candidates[1] < run.top_candidates[2]

\* a run in which the sort moved a later candidate to the front
C12_Reordered ==
  /\ pc = "done"
  /\ Len(run.top_candidates) >= 2
  /\ run.top_candidates[1] > run.top_candidates[2]
  /\ result.value.top_candidates[1].fit_score > result.value.top_candidates[2].fit_score

\* the scored candidates that are not among the top candidates
Excluded(r) == Range(r.scored_candidates) \ Range(r.top_candidates)

\* C13: top_candidates are the first min(10, n) candidates of the ranked
\* order: no excluded candidate has a higher fit_score than an included one
\* (or an equal one and an earlier place), and generate_outreach_message is
\* called for the top candidates only, so an excluded candidate has no
\* message.
C13_TruncationBeforeMessages ==
  pc \in After("message") =>
    /\ Len(run.top_candidates) = Min(10, Len(run.scored_candidates))
    /\ Cardinality(Range(run.top_candidates)) = Len(run.top_candidates)
    /\ Range(run.top_candidates) \subseteq Range(run.scored_candidates)
    /\ \A x \in Excluded(run) : \A y \in Range(run.top_candidates) :
         /\ run.objs[x].fit_score <= run.objs[y].fit_score
         /\ run.objs[x].fit_score = run.objs[y].fit_score =>
              Pos(run.scored_candidates, y) < Pos(run.scored_candidates, x)
    /\ {c.refs[1] : c \in Range(CallsOf(run, "generate_outreach_message"))} =
         Range(run.top_candidates)
    /\ Len(CallsOf(run, "generate_outreach_message")) = Len(run.top_candidates)
    /\ \A x \in Excluded(run) : "outreach_message" \notin DOMAIN run.objs[x]
    /\ pc = "done" =>
         Len(result.value.top_candidates) = Min(10, Len(run.scored_candidates))

C13_Witness ==
  /\ pc = "done"
  /\ Len(run.scored_candidates) = 12
  /\ Len(result.value.top_candidates) = 10
  /\ Cardinality(Excluded(run)) = 2
  /\ \E x \in Excluded(run) : \E y \in Range(run.top_candidates) :
       run.objs[x].fit_score = run.objs[y].fit_score

\* C14: the returned list holds exactly the scored candidates whose
\* fit_score is at least the configured minimum score threshold, in ranked
\* order.
C14_ThresholdFilters ==
  pc = "done" =>
    LET T == config.min_score_threshold
        ranked == SortedByFit(run.objs, run.scored_candidates)
        kept == SelectSeq(ranked, LAMBDA x : run.objs[x].fit_score >= T)
    IN  /\ \A k \in 1..Len(result.value.top_candidates) :
             result.value.top_candidates[k].fit_score >= T
        /\ Len(result.value.top_candidates) = Min(TopN, Len(kept))

\* some per-candidate call (scoring or messaging) of the run raised
CandidateFailed(r) ==
  \E k \in 1..Len(r.calls) :
    /\ r.calls[k].fn \in {"score_profiles", "generate_outreach_message"}
    /\ r.calls[k].outcome = "raises"

\* the second half of C15 on its own: with no failed stage, failures of
\* single candidates leave success true
PerCandidateFailuresKeepSuccess ==
  (pc = "done" /\ ~SearchFailed(run) /\ ~EnrichFailed(run)) =>
    result.value.success = TRUE

\* a successful result of a run with a failed candidate
PerCandidateFailureReached ==
  /\ pc = "done"
  /\ CandidateFailed(run)
  /\ result.value.success = TRUE

\* C15: success is false in the result of every run whose search failed, and
\* failures of single candidates in scoring or messaging alone do not make
\* it false.
C15_SuccessFlag ==
  /\ (pc = "done" /\ SearchFailed(run)) => result.value.success = FALSE
  /\ PerCandidateFailuresKeepSuccess

\* the calls of a run that ended in a non-fatal failure
NonFatalFailures(r) ==
  SelectSeq(r.calls, LAMBDA c :
    /\ c.fn \in {"enrich_profiles", "score_profiles", "generate_outreach_message"}
    /\ c.outcome = "raises")

\* C16: the error list of the returned result has one error string for every
\* non-fatal failure of the run: a failed enrichment and each failed scoring
\* or message generation of a candidate.
C16_NonFatalFailuresRecorded ==
  pc = "done" =>
    Len(SelectSeq(result.value.pipeline_metadata.errors,
                  LAMBDA e : e # "Search error")) = Len(NonFatalFailures(run))

\* the part of C16 that holds: a failed enrichment is in the error list
EnrichFailureRecorded ==
  (pc = "done" /\ EnrichFailed(run)) =>
    "Enrichment error" \in Range(result.value.pipeline_metadata.errors)

\* a job with none of the fields of a job
Malformed(j) == JobFields \cap DOMAIN j = {}

\* C17: for a malformed job no stage runs: the search is never called (the
\* run ends with a validation error instead of a result).
C17_MalformedJobIsRejected ==
  Malformed(run.job) =>
    /\ CallsOf(run, "search_candidates") = <<>>
    /\ run.steps_completed = <<>>
    /\ result = NoResult

\* the stages in the order of the code, by the collaborator they call and by
\* the name they leave in steps_completed
StageOrder == <<"search_candidates", "enrich_profiles", "score_profiles",
                "generate_outreach_message">>
StepOrder == <<"search", "enrichment", "scoring", "messaging">>

StageNo(fn) == CHOOSE n \in 1..4 : StageOrder[n] = fn
StepNo(step) == CHOOSE n \in 1..4 : StepOrder[n] = step

\* the number of stages that have ended when the run is at pc
StagesEnded(p) ==
  CASE p = "search" -> 0
    [] p = "enrich" -> 1
    [] p = "score" -> 2
    [] p = "message" -> 3
    [] p \in {"return", "done"} -> 4

\* C18: the collaborator calls of a run are in the order search, enrichment,
\* scoring, messaging; the search and the enrichment are called at most once
\* and no candidate is scored or given a message twice; at every point only
\* the stages before the current one have run; steps_completed is a
\* duplicate-free subsequence of [search, enrichment, scoring, messaging].
C18_StagesInOrder ==
  pc \in Stages =>
    /\ \A a, b \in 1..Len(run.calls) :
         a < b => StageNo(run.calls[a].fn) <= StageNo(run.calls[b].fn)
    /\ \A k \in 1..Len(run.calls) : StageNo(run.calls[k].fn) <= StagesEnded(pc)
    /\ \A n \in 1..StagesEnded(pc) :
         n \in {1, 2} => Len(CallsOf(run, StageOrder[n])) = 1
    /\ \A a, b \in 1..Len(run.calls) :
         (a < b /\ run.calls[a].fn = run.calls[b].fn) =>
           run.calls[a].refs # run.calls[b].refs
    /\ Range(run.steps_completed) \subseteq Range(StepOrder)
    /\ \A a, b \in 1..Len(run.steps_completed) :
         a < b => StepNo(run.steps_completed[a]) < StepNo(run.steps_completed[b])
    /\ \A k \in 1..Len(run.steps_completed) :
         StepNo(run.steps_completed[k]) <= StagesEnded(pc)
    /\ pc = "done" =>
         result.value.pipeline_metadata.steps_completed = run.steps_completed

C18_Witness ==
  /\ pc = "done"
  /\ result.value.pipeline_metadata.steps_completed = StepOrder
  /\ Len(run.calls) = 6
  /\ [k \in 1..6 |-> StageNo(run.calls[k].fn)] = <<1, 2, 3, 3, 4, 4>>

\* a run whose steps_completed skips stages that failed
C18_PartialSteps ==
  /\ pc = "done"
  /\ run.steps_completed = <<"scoring", "messaging">>

----------------------------------------------------------------------------
(* Claims about the skills match, checked under SkillsSpec *)

\* the quantities of the formula: matched and listed required skills,
\* matched and listed preferred skills (0 of 1 without preferred skills)
ReqMatched ==
  IF Truthy(args.required_skills)
  THEN Cardinality(Common(args.candidate_skills.v, args.required_skills.v))
  ELSE 0
ReqListed ==
  IF Truthy(args.required_skills) THEN Len(args.required_skills.v) ELSE 0
PrefMatched ==
  IF Truthy(args.preferred_skills)
  THEN Cardinality(Common(args.candidate_skills.v, args.preferred_skills.v))
  ELSE 0
PrefListed ==
  IF Truthy(args.preferred_skills) THEN Len(args.preferred_skills.v) ELSE 1

\* 8 * ReqMatched / ReqListed + 0.2 * PrefMatched / PrefListed, in hundredths,
\* as a fraction: ExactNum / ExactDen
ExactNum == 800 * ReqMatched * PrefListed + 20 * PrefMatched * ReqListed
ExactDen == ReqListed * PrefListed

\* C19 as stated: the score is exactly min(10, 8 * required match + 0.2 *
\* preferred match), and 5.0 without required skills.
C19_SkillsFormulaExact ==
  kpc = "returned" =>
    IF ~Truthy(args.required_skills) THEN skills_ret.score = 500
    ELSE skills_ret.score * ExactDen = Min(1000 * ExactDen, ExactNum)

\* C19: the score is min(10, 8 * required match + 0.2 * preferred match)
\* rounded to two decimals, with no bonus when there are no preferred skills,
\* and exactly 5.0 when required_skills is empty or None; with no required
\* skill matched the score is the rounded bonus, and with half of the
\* required skills matched and no bonus it is 4.0.
C19_SkillsFormulaRounded ==
  kpc = "returned" =>
    /\ ~skills_ret.raised
    /\ IF ~Truthy(args.required_skills) THEN skills_ret.score = 500
       ELSE /\ skills_ret.score =
                 Min(1000, RoundHalfEven(ExactNum, ExactDen))
            /\ ReqMatched = 0 =>
                 skills_ret.score = RoundHalfEven(20 * PrefMatched, PrefListed)
            /\ (2 * ReqMatched = ReqListed /\ PrefMatched = 0) =>
                 skills_ret.score = 400

C19_Witness ==
  /\ kpc = "returned"
  /\ ReqListed = 3
  /\ ReqMatched = 3
  /\ PrefListed = 3
  /\ PrefMatched = 2
  /\ skills_ret.score = 813

\* half of the required skills matched, no preferred skills: 4.0
C19_HalfMatched ==
  /\ kpc = "returned"
  /\ args.candidate_skills = PyList(<<"Python", "Docker">>)
  /\ args.required_skills = PyList(<<"Python", "AWS">>)
  /\ args.preferred_skills = PyNone
  /\ skills_ret.score = 400

\* C20: a candidate who has every required skill and every preferred skill
\* gets a skills-match score of exactly 10.
C20_FullMatchScoresTen ==
  ( /\ kpc = "returned"
    /\ Truthy(args.required_skills)
    /\ Truthy(args.preferred_skills)
    /\ Range(args.required_skills.v) \subseteq Range(args.candidate_skills.v)
    /\ Range(args.preferred_skills.v) \subseteq Range(args.candidate_skills.v) )
  => skills_ret.score = 1000

----------------------------------------------------------------------------
(* Claims about the other evaluators, checked under EvalSpec *)

LocationCall == epc = "returned" /\ efn = "_evaluate_location_fit"

\* the comma segments of a location, lower case; Trimmed also without the
\* white space around each
Segments(loc) ==
  LET parts == Split(loc.v, ",") IN [i \in 1..Len(parts) |-> Lower(parts[i])]
Trimmed(loc) ==
  LET parts == Split(loc.v, ",") IN [i \in 1..Len(parts) |-> Lower(Strip(parts[i]))]

\* the score of the first rule that applies
LocationRule(c, j, remote) ==
  CASE ~Truthy(c) \/ ~Truthy(j) -> 500
    [] OTHER ->
       CASE Lower(c.v) = Lower(j.v) -> 1000
         [] OTHER ->
            CASE Segments(c)[1] = Segments(j)[1] -> 900
              [] OTHER ->
                 CASE Len(Trimmed(c)) >= 2 /\ Len(Trimmed(j)) >= 2
                        /\ Trimmed(c)[2] = Trimmed(j)[2] -> 700
                   [] OTHER -> IF remote.v THEN 600 ELSE 300

\* C21: the location-fit score is that of the first rule that applies:
\* a missing location 5.0, equal up to case 10.0, same first comma segment
\* 9.0, same second comma segment 7.0, remote allowed 6.0, otherwise 3.0.
C21_LocationRules ==
  LocationCall =>
    /\ ~eret.raised
    /\ eret.score =
         LocationRule(eargs.candidate_location, eargs.job_location,
                      eargs.remote_allowed)
    /\ eret.score \in {300, 500, 600, 700, 900, 1000}
    /\ (eargs.candidate_location = PyStr(AustinTX)
          /\ eargs.job_location = PyStr(AustinOR)) => eret.score = 900
    /\ (eargs.candidate_location = PyStr(HoustonTX)
          /\ eargs.job_location = PyStr(AustinTX)) => eret.score = 700
    /\ (eargs.candidate_location = PyStr(AustinTX)
          /\ eargs.job_location = PyStr(BostonMA)
          /\ eargs.remote_allowed = PyBool(FALSE)) => eret.score = 300

C21_Witness ==
  /\ LocationCall
  /\ eargs.candidate_location = PyStr(HoustonTX)
  /\ eargs.job_location = PyStr(AustinTX)
  /\ eargs.remote_allowed = PyBool(TRUE)
  /\ eret.score = 700

\* equality up to case is reached
C21_EqualUpToCase ==
  /\ LocationCall
  /\ eargs.candidate_location = PyStr(AustinLower)
  /\ eargs.job_location = PyStr(AustinTX)
  /\ eret.score = 1000

ExperienceCall == epc = "returned" /\ efn = "_assess_experience_relevance"

\* the years of an entry, in twelfths
EntryYears(exp) == _parse_duration(Get(exp, "duration", DefaultDuration))

\* the title-relevance ratio of an entry is strictly greater than 0.6
EntryRelevant(exp, job_title) ==
  LET cw == Range(Words(Lower(Get(exp, "title", PyStr(<<>>)).v)))
      jw == Range(Words(Lower(job_title.v)))
  IN  jw # {} /\ 5 * Cardinality(cw \cap jw) > 3 * Cardinality(jw)

\* total and relevant years of the call's entries (twelfths), and the
\* required years
TotalYears ==
  SumSeq([i \in 1..Len(eargs.candidate_experience.v) |->
            EntryYears(eargs.candidate_experience.v[i])])
RelevantYears ==
  SumSeq([i \in 1..Len(eargs.candidate_experience.v) |->
            IF EntryRelevant(eargs.candidate_experience.v[i], eargs.job_title)
            THEN EntryYears(eargs.candidate_experience.v[i]) ELSE 0])
RequiredYears == Max(eargs.required_years.v, 1)

\* (total / required) * 8 + (relevant / max(total, 1)) * 2 in hundredths, as
\* the fraction FormulaNum / FormulaDen; the first term alone as YearsNum /
\* YearsDen
YearsNum == 800 * TotalYears
YearsDen == 12 * RequiredYears
FormulaNum == YearsNum * Max(TotalYears, 12) + 200 * RelevantYears * YearsDen
FormulaDen == YearsDen * Max(TotalYears, 12)

\* the same with the first term limited to 10
ClampedNum ==
  IF YearsNum >= 1000 * YearsDen
  THEN 1000 * Max(TotalYears, 12) + 200 * RelevantYears
  ELSE FormulaNum
ClampedDen ==
  IF YearsNum >= 1000 * YearsDen THEN Max(TotalYears, 12) ELSE FormulaDen

\* C22 as stated: the score is exactly min(10, (total / max(required, 1)) * 8
\* + (relevant / max(total, 1)) * 2), and 1.0 without entries.
C22_ExperienceFormulaExact ==
  ExperienceCall =>
    IF eargs.candidate_experience.v = <<>> THEN eret.score = 100
    ELSE eret.score * FormulaDen = Min(1000 * FormulaDen, FormulaNum)

\* C22: the score is min(10, min(10, (total / max(required, 1)) * 8) +
\* (relevant / max(total, 1)) * 2) rounded to two decimals, where an entry is
\* relevant only if its title-relevance ratio is strictly greater than 0.6
\* and an unparsable duration counts as 1.0 year; without entries it is 1.0.
C22_ExperienceFormulaRounded ==
  ExperienceCall =>
    /\ ~eret.raised
    /\ IF eargs.candidate_experience.v = <<>> THEN eret.score = 100
       ELSE eret.score = Min(1000, RoundHalfEven(ClampedNum, ClampedDen))
    /\ EntryYears([duration |-> PyStr(<<"s","e","v","e","r","a","l"," ","y","e","a","r","s">>)]) = 12
    /\ EntryYears([duration |-> PyStr(<<"4"," ","m","o","n","t","h","s">>)]) = 4

\* one entry "Senior Software Engineer" against the five-word title: the
\* ratio is exactly 0.6, so its 3 years are not relevant: 3 / 3 * 8 = 8.0
C22_Witness ==
  /\ ExperienceCall
  /\ Len(eargs.candidate_experience.v) = 1
  /\ Get(eargs.candidate_experience.v[1], "title", PyNone) = PyStr(SeniorSoftwareEngineer)
  /\ eargs.job_title = PyStr(LeadTitle)
  /\ eargs.required_years = PyInt(3)
  /\ RelevantYears = 0
  /\ eret.score = 800

\* a relevant entry with a rounded score: 4 months, 3 years required
C22_RoundedScore ==
  /\ ExperienceCall
  /\ TotalYears = 4
  /\ RelevantYears = 4
  /\ eargs.required_years = PyInt(3)
  /\ eret.score = 156

EducationCall == epc = "returned" /\ efn = "_evaluate_education"

\* the score of the longest key of the degree table contained in a degree
\* (the higher score among keys of equal length, 0 when it contains none)
LongestKeyScore(degree) ==
  LET hits == {i \in 1..Len(degree_scores) : IsSubstr(degree_scores[i][1], degree)}
      longest == {i \in hits : \A j \in hits :
                    Len(degree_scores[j][1]) <= Len(degree_scores[i][1])}
  IN  IF hits = {} THEN 0
      ELSE degree_scores[CHOOSE i \in longest : \A j \in longest : i <= j][2]

\* C23 as stated: the education score is min(10, M + B), M the maximum over
\* the entries of the score of the longest degree-table key contained in the
\* entry's degree, B = 1.0 if a school is prestigious; 5.0 without entries.
C23_LongestKeyMaximum ==
  EducationCall =>
    IF ~Truthy(eargs.education) THEN eret = Returns(500)
    ELSE
      LET entries == eargs.education.v
          B == IF \E i \in 1..Len(entries) :
                    IsPrestigiousSchool(Lower(Get(entries[i], "school", PyStr(<<>>)).v))
               THEN 100 ELSE 0
          scores == {LongestKeyScore(Lower(Get(entries[i], "degree", PyStr(<<>>)).v)) :
                       i \in 1..Len(entries)}
          M == CHOOSE x \in scores : \A y \in scores : y <= x
      IN  eret = Returns(Min(1000, M + B))

\* a degree whose first matching key in table order is not its longest one
C23_FirstKeyWins ==
  /\ EducationCall
  /\ eargs.education = PyList(<<EduHighSchool>>)
  /\ eret = Returns(800)

\* the seven factors' fields and weights (hundredths)
FactorFields ==
  <<"linkedin_url", "experience", "education", "skills", "summary", "location",
    "headline">>
FactorWeight ==
  [linkedin_url |-> 20, experience |-> 20, education |-> 15, skills |-> 15,
   summary |-> 10, location |-> 10, headline |-> 10]

\* a field is populated: a non-empty list, a string that is not empty after
\* trimming, or any other truthy value
Populated(c, field) ==
  /\ field \in DOMAIN c
  /\ CASE c[field].t = "list" -> c[field].v # <<>>
       [] c[field].t = "str" -> \E i \in 1..Len(c[field].v) : c[field].v[i] # " "
       [] OTHER -> Truthy(c[field])

PopulatedWeights(c) ==
  SumSeq([i \in 1..Len(FactorFields) |->
            IF Populated(c, FactorFields[i]) THEN FactorWeight[FactorFields[i]] ELSE 0])

\* C24: the confidence score_profiles returns is the sum of the weights of
\* the populated factors of the candidate, whatever the job is.
C24_ConfidenceOfCandidateAlone ==
  (spc = "returned" /\ ~ret.raised) => ret.confidence = PopulatedWeights(candidate)

\* a candidate with a blank headline, an empty summary and an empty
\* experience list, whose skills and location count: 0.15 + 0.1
C24_Witness ==
  /\ spc = "returned"
  /\ ~ret.raised
  /\ "headline" \in DOMAIN candidate /\ candidate.headline = PyStr(Blank)
  /\ "skills" \in DOMAIN candidate /\ Truthy(candidate.skills)
  /\ "location" \in DOMAIN candidate
  /\ "education" \notin DOMAIN candidate
  /\ job # EmptyDict
  /\ ret.confidence = 25

C26_NeverRaises ==
  spc = "returned" => ~ret.raised

\* skills None against a job that requires skills: score_profiles raises
C26_NoneSkillsRaise ==
  /\ spc = "returned"
  /\ candidate = [skills |-> PyNone]
  /\ Truthy(Get(job, "skills", PyList(<<>>)))
  /\ ret.raised

\* absent fields, as opposed to None ones, never raise
C26_AbsentFieldsReturn ==
  (spc = "returned" /\ candidate = EmptyDict /\ job = EmptyDict) => ~ret.raised

\* success is true exactly when the error list is empty
SuccessIffNoErrors(r) == r.success <=> (r.pipeline_metadata.errors = <<>>)

\* C27: in every result of run_job_pipeline (a task's result that is not an
\* exception) and in every result run_batch_pipeline returns, success is true
\* exactly when pipeline_metadata's error list is empty; a run whose
\* enrichment failed returns success = false.
C27_SuccessIffNoErrors ==
  /\ \A i \in 1..NumJobs :
       (results[i].done /\ ~results[i].is_exception) =>
         /\ SuccessIffNoErrors(results[i].value)
         /\ EnrichFailed(task[i].run) => results[i].value.success = FALSE
  /\ bpc = "returned" =>
       \A i \in 1..Len(processed_results) : SuccessIffNoErrors(processed_results[i])

\* the batch returned; the only failure of job 2 was its enrichment, which was
\* recovered: all its candidates are in the result, and success is false
C27_Witness ==
  /\ bpc = "returned"
  /\ ~results[2].is_exception
  /\ EnrichFailed(task[2].run)
  /\ processed_results[2].pipeline_metadata.errors = <<"Enrichment error">>
  /\ processed_results[2].top_candidates # <<>>
  /\ processed_results[2].success = FALSE
  /\ processed_results[1].success = TRUE

\* the same for the result of one run of run_job_pipeline, whatever failed
C27_JobResult ==
  pc = "done" => SuccessIffNoErrors(result.value)

\* C28: every permit of the semaphore is either free or held by a task in
\* flight (so a task that ended, by returning or by raising, gave its permit
\* back), every job is eventually started and completed, and the batch
\* eventually returns with all permits free.
C28_BatchTerminates ==
  /\ [](sem + Cardinality(InFlight) = MaxConcurrent)
  /\ <>(/\ \A i \in 1..NumJobs : task[i].pc = "done" /\ results[i].done
        /\ bpc = "returned"
        /\ sem = MaxConcurrent)

\* a batch of more jobs than permits returned although the pipeline of job 2
\* raised
C28_Witness ==
  /\ NumJobs > MaxConcurrent
  /\ bpc = "returned"
  /\ results[2].is_exception
  /\ \A i \in 1..NumJobs : task[i].pc = "done"
  /\ sem = MaxConcurrent
  /\ Len(processed_results) = NumJobs

\* the call of _make_request has ended
RequestEnded == req.pc \in {"returned", "raised"}

\* the responses that consume an attempt and are retried
Retried == {"rate_limited", "timeout", "unexpected", "bad_json"}

\* C29 as stated: at most max_retries requests are made; a call that returned
\* returned its first successful response; every response before the last
\* one was a 429, a timeout or an unexpected error; after an HTTP status
\* error other than 429 no further request is made and CoresignalAPIError is
\* raised; a call that did not return raised CoresignalAPIError.
C29_RequestContract ==
  /\ Len(req.requests) <= req.max_retries
  /\ \A k \in 1..(Len(req.requests) - 1) : req.requests[k] \in Retried
  /\ req.pc = "returned" => req.requests[Len(req.requests)] = "ok"
  /\ req.pc = "raised" => req.raised = "CoresignalAPIError"
  /\ (req.requests # <<>> /\ req.requests[Len(req.requests)] = "status_error") =>
       (req.pc = "raised" /\ req.raised = "CoresignalAPIError")

\* the same without the class of the exception a status error ends in
C29_AttemptsBounded ==
  /\ Len(req.requests) <= req.max_retries
  /\ \A k \in 1..(Len(req.requests) - 1) : req.requests[k] \in Retried
  /\ req.pc = "returned" => req.requests[Len(req.requests)] = "ok"
  /\ (req.pc = "raised" /\ req.requests # <<>>
        /\ req.requests[Len(req.requests)] # "status_error") =>
       (req.raised = "CoresignalAPIError" /\ Len(req.requests) = req.max_retries)
  /\ (req.requests # <<>> /\ req.requests[Len(req.requests)] = "status_error") =>
       req.pc = "raised"

\* a status error with a body that is not JSON leaves as another exception
C29_TextBodyEscapes ==
  /\ req.pc = "raised"
  /\ req.requests = <<"timeout", "status_error">>
  /\ req.raised = "JSONDecodeError"

\* C30: the function is invoked at most max_retries + 1 times and never
\* after an invocation that returned; the wrapper returns the result of that
\* invocation; it raises only after max_retries + 1 failed invocations, and
\* then the exception of the last one; the k-th sleep is delay * backoff^(k-1).
C30_RetryContract ==
  wrap.pc # "idle" =>
    LET n == Len(wrap.invocations)
    IN  /\ n <= wrap.max_retries + 1
        /\ \A k \in 1..(n - 1) : wrap.invocations[k] = "raises"
        /\ wrap.pc = "returned" =>
             (wrap.invocations[n] = "returns" /\ wrap.value = n /\ wrap.raised = 0)
        /\ wrap.pc = "raised" =>
             /\ n = wrap.max_retries + 1
             /\ wrap.invocations[n] = "raises"
             /\ wrap.raised = n
        /\ Len(wrap.slept) <= wrap.max_retries
        /\ \A k \in 1..Len(wrap.slept) :
             wrap.slept[k] = wrap.delay * wrap.backoff ^ (k - 1)
        /\ wrap.pc = "loop" => Len(wrap.slept) = Min(n, wrap.max_retries)

\* max_retries = 3, delay = 1, backoff = 2, as for _make_api_request: four
\* invocations raised, the wrapper slept 1, 2 and 4 and raised the fourth
\* exception
C30_Witness ==
  /\ wrap.pc = "raised"
  /\ wrap.max_retries = 3
  /\ wrap.invocations = <<"raises", "raises", "raises", "raises">>
  /\ wrap.slept = <<1, 2, 4>>
  /\ wrap.raised = 4

\* the third invocation returned after two retries
C30_ReturnsFirstSuccess ==
  /\ wrap.pc = "returned"
  /\ wrap.invocations = <<"raises", "raises", "returns">>
  /\ wrap.value = 3
  /\ wrap.slept = <<3, 9>>

====
